---- MODULE Spec2Model ----
(***************************************************************************)
(* Dataset marketplace backend: the storage facade (DataManager), the      *)
(* password based encryption helper (DataEncryption), the validator and    *)
(* the HTTP handlers that drive them.                                      *)
(*                                                                         *)
(* Python values are modelled as follows.                                  *)
(*   - bytes          : sequences of small integers                        *)
(*   - dict           : functions whose domain is the set of keys          *)
(*   - file paths     : records [dir, stem, cid, ext]; ext is the list of  *)
(*                      dotted suffixes, so that "+ '.encrypted'" and      *)
(*                      ".replace('.encrypted', '.decrypted')" act on it   *)
(*   - IPFS pointers  : positive integers handed out by the store, equal   *)
(*                      for equal content (content addressing)            *)
(*   - exceptions     : the field exc of a call's result, "" for none      *)
(***************************************************************************)
EXTENDS Integers, Sequences, FiniteSets, TLC

VARIABLES
    salt,        \* DataEncryption.salt of the shared encryptor
    files,       \* local file system: path -> content
    blobs,       \* IPFS store, the blobs put so far (pointer = index)
    jsons,       \* IPFS store, the JSON objects put so far (pointer = index)
    callerMeta,  \* the caller's metadata dicts (mutable, passed by reference)
    uploads,     \* history: the upload_dataset calls that returned
    encLog,      \* history: the encrypt_file calls that returned
    last,        \* the last call and its outcome
    nops,        \* number of calls made so far
    ledger,      \* the transactions submitted to the contract
    pc,          \* threads sharing the encryptor: position of each
    tl           \* threads sharing the encryptor: locals of each

vars == <<salt, files, blobs, jsons, callerMeta, uploads, encLog, last, nops, ledger, pc, tl>>

----------------------------------------------------------------------------
(* Bounds *)

MaxOps == 2          \* calls per behaviour
MaxLen == 1          \* length of a file in bytes
IVs == {1, 2}        \* the random IVs Fernet may draw
Salts == {<<10>>, <<171>>}   \* the values os.urandom may return
Passwords == {"secret", "wrong"}
MetaIds == {"m1"}    \* the metadata dicts the caller holds

None == "<None>"     \* Python's None where a str is expected
PasswordArgs == Passwords \cup {"", None}

Bytes == {7}
ByteSeqs == UNION {[1..n -> Bytes] : n \in 0..MaxLen}

----------------------------------------------------------------------------
(* Python helpers *)

\* truthiness of an Optional[str]: None and "" are falsy
Truthy(p) == p # None /\ p # ""

EmptyDict == [k \in {} |-> TRUE]

DictSet(d, k, v) == [x \in (DOMAIN d) \cup {k} |-> IF x = k THEN v ELSE d[x]]

\* dict.get(k, default)
DictGet(d, k, default) == IF k \in DOMAIN d THEN d[k] ELSE default

HexDigits == <<"0", "1", "2", "3", "4", "5", "6", "7",
               "8", "9", "a", "b", "c", "d", "e", "f">>

\* bytes.hex(): two lowercase digits per byte
RECURSIVE Hex(_)
Hex(bs) ==
    IF bs = <<>> THEN <<>>
    ELSE <<HexDigits[(Head(bs) \div 16) + 1], HexDigits[(Head(bs) % 16) + 1]>>
         \o Hex(Tail(bs))

DigitVal(c) == CHOOSE i \in 0..15 : HexDigits[i + 1] = c

\* bytes.fromhex()
RECURSIVE FromHex(_)
FromHex(hs) ==
    IF Len(hs) < 2 THEN <<>>
    ELSE <<DigitVal(hs[1]) * 16 + DigitVal(hs[2])>> \o FromHex(SubSeq(hs, 3, Len(hs)))

----------------------------------------------------------------------------
(* Paths and file contents *)

UserPath(stem, ext) == [dir |-> "user", stem |-> stem, cid |-> 0, ext |-> ext]
TmpPath(stem, ext) == [dir |-> "tmp", stem |-> stem, cid |-> 0, ext |-> ext]
\* the local file ipfs.get leaves for a pointer
IpfsPath(ptr) == [dir |-> "ipfs", stem |-> "", cid |-> ptr, ext |-> <<>>]
NoPath == [dir |-> "", stem |-> "", cid |-> 0, ext |-> <<>>]

\* file_path + '.encrypted'
AddEncrypted(p) == [p EXCEPT !.ext = Append(@, ".encrypted")]

\* encrypted_file_path.replace('.encrypted', '.decrypted')
ReplaceEncrypted(p) ==
    [p EXCEPT !.ext = [i \in DOMAIN @ |-> IF @[i] = ".encrypted" THEN ".decrypted" ELSE @[i]]]

\* file_path.endswith(suffix)
EndsWith(p, suffix) == p.ext # <<>> /\ p.ext[Len(p.ext)] = suffix

NoKey == [password |-> None, salt |-> <<>>]

PlainFile(data) == [kind |-> "plain", data |-> data, key |-> NoKey, iv |-> 0]

UserPaths == {UserPath("a", <<".csv">>), UserPath("b", <<".txt">>)}

----------------------------------------------------------------------------
(* cryptography: PBKDF2-HMAC-SHA256 and Fernet, idealised *)

\* kdf.derive: a function of password and salt, different for different inputs
PBKDF2HMAC(password, kdf_salt) == [password |-> password, salt |-> kdf_salt]

\* Fernet(key).encrypt(data): the token binds data to the key and a random IV
Fernet_encrypt(key, content, iv) ==
    [kind |-> "fernet", data |-> content.data, key |-> key, iv |-> iv]

\* Fernet(key).decrypt(token): the data, or InvalidToken when the HMAC does
\* not verify under key (or the bytes are no token at all)
Fernet_decrypt(key, content) ==
    IF content.kind = "fernet" /\ content.key = key
    THEN [exc |-> "", content |-> PlainFile(content.data)]
    ELSE [exc |-> "InvalidToken", content |-> PlainFile(<<>>)]

----------------------------------------------------------------------------
(* DataEncryption *)

\* generate_key(password): the key is derived from the instance's salt
generate_key(self_salt, password) ==
    IF password = None
    THEN [exc |-> "AttributeError", key |-> NoKey]
    ELSE [exc |-> "", key |-> PBKDF2HMAC(password, self_salt)]

\* encrypt_file(file_path, password); fs is the file system, iv Fernet's IV
encrypt_file(self_salt, fs, file_path, password, iv) ==
    LET k == generate_key(self_salt, password)
        out == AddEncrypted(file_path)
        failed(e) == [exc |-> e, fs |-> fs, path |-> NoPath, salt |-> <<>>, key |-> NoKey]
    IN  IF k.exc # "" THEN failed(k.exc)
        ELSE IF file_path \notin DOMAIN fs THEN failed("FileNotFoundError")
        ELSE [exc |-> "",
              fs |-> DictSet(fs, out, Fernet_encrypt(k.key, fs[file_path], iv)),
              path |-> out,
              salt |-> self_salt,
              key |-> k.key]

\* decrypt_file(encrypted_file_path, password, salt); self_salt is the
\* instance's salt after the call
decrypt_file(fs, encrypted_file_path, password, salt_arg) ==
    LET k == generate_key(salt_arg, password)
        out == ReplaceEncrypted(encrypted_file_path)
        failed(e) == [exc |-> e, fs |-> fs, path |-> NoPath, self_salt |-> salt_arg, key |-> k.key]
    IN  IF k.exc # "" THEN failed(k.exc)
        ELSE IF encrypted_file_path \notin DOMAIN fs THEN failed("FileNotFoundError")
        ELSE LET d == Fernet_decrypt(k.key, fs[encrypted_file_path])
             IN  IF d.exc # "" THEN failed(d.exc)
                 ELSE [exc |-> "",
                       fs |-> DictSet(fs, out, d.content),
                       path |-> out,
                       self_salt |-> salt_arg,
                       key |-> k.key]

----------------------------------------------------------------------------
(* hashing *)

ChunkSize == 4096

Min(a, b) == IF a < b THEN a ELSE b

\* f.read(n) with the file position at pos
ReadBlock(data, pos, n) == SubSeq(data, pos + 1, Min(pos + n, Len(data)))

\* the read loop of _calculate_file_hash: absorbed is what sha256.update has
\* been given so far; the loop ends at the first empty block
RECURSIVE HashBlocks(_, _, _)
HashBlocks(data, pos, absorbed) ==
    LET byte_block == ReadBlock(data, pos, ChunkSize)
    IN  IF byte_block = <<>> THEN absorbed
        ELSE HashBlocks(data, pos + Len(byte_block), absorbed \o byte_block)

\* sha256(...).hexdigest(), idealised: the digest names the bytes absorbed
hexdigest(content, absorbed) == [alg |-> "sha256", of |-> [content EXCEPT !.data = absorbed]]

NoHash == [alg |-> "", of |-> PlainFile(<<>>)]

\* a variant that reads one block and stops
_calculate_file_hash_SingleRead(fs, file_path) ==
    IF file_path \notin DOMAIN fs
    THEN [exc |-> "FileNotFoundError", hash |-> NoHash]
    ELSE [exc |-> "", hash |-> hexdigest(fs[file_path], ReadBlock(fs[file_path].data, 0, ChunkSize))]

_calculate_file_hash(fs, file_path) ==
    IF file_path \notin DOMAIN fs
    THEN [exc |-> "FileNotFoundError", hash |-> NoHash]
    ELSE [exc |-> "", hash |-> hexdigest(fs[file_path], HashBlocks(fs[file_path].data, 0, <<>>))]

----------------------------------------------------------------------------
(* the IPFS client: a content addressed store *)

Ptrs(store) == 1..Len(store)

\* a store client that hands back the first pointer for whatever it stored
ipfs_add_FirstPointer(store, obj) == [ptr |-> 1, store |-> Append(store, obj)]

\* ipfs.add / ipfs.add_json: equal content gets the same pointer
ipfs_add(store, obj) ==
    LET found == {i \in Ptrs(store) : store[i] = obj}
    IN  IF found # {}
        THEN [ptr |-> CHOOSE i \in found : TRUE, store |-> store]
        ELSE [ptr |-> Len(store) + 1, store |-> Append(store, obj)]

NoResult == [metadata_hash |-> 0, ipfs_hash |-> 0, file_hash |-> NoHash]

\* what an upload_dataset call got back from encrypt_file, if it called it
NoEnc == [called |-> FALSE, salt |-> <<>>, key |-> NoKey]
Enc(e) == [called |-> TRUE, salt |-> e.salt, key |-> e.key]

----------------------------------------------------------------------------
(* DataManager *)

\* upload_dataset(file_path, metadata, password) from line 17 on; h is the
\* outcome of the hash computation of line 15, iv the IV Fernet draws,
\* ipfs_fail names the store call that fails ("" for none).  The result
\* carries the state after the call: the file system, the store and the
\* caller's metadata dict, which the call mutates in place.
upload_steps(h, self_salt, fs, bl, js, file_path, metadata, password, iv, ipfs_fail) ==
    LET out(e, fs1, bl1, js1, md, ret, enc) ==
            [exc |-> e, fs |-> fs1, blobs |-> bl1, jsons |-> js1, metadata |-> md,
             ret |-> ret, enc |-> enc]
        \* lines 33-41: metadata_obj, add_json, return
        finish(fs1, bl1, ipfs_hash, md, enc) ==
            LET metadata_obj == [file_hash |-> h.hash, ipfs_hash |-> ipfs_hash, metadata |-> md]
                j == ipfs_add(js, metadata_obj)
            IN  IF ipfs_fail = "add_json"
                THEN out("IPFSError", fs1, bl1, js, md, NoResult, enc)
                ELSE out("", fs1, bl1, j.store, md,
                         [metadata_hash |-> j.ptr, ipfs_hash |-> ipfs_hash, file_hash |-> h.hash],
                         enc)
    IN  IF h.exc # "" THEN out(h.exc, fs, bl, js, metadata, NoResult, NoEnc)
        ELSE IF Truthy(password)
        THEN LET e == encrypt_file(self_salt, fs, file_path, password, iv)
             IN  IF e.exc # "" THEN out(e.exc, fs, bl, js, metadata, NoResult, NoEnc)
                 ELSE IF ipfs_fail = "add"
                 THEN out("IPFSError", e.fs, bl, js, metadata, NoResult, Enc(e))
                 ELSE LET a == ipfs_add(bl, e.fs[e.path])
                          md == DictSet(DictSet(metadata, "encrypted", TRUE), "salt", Hex(e.salt))
                      IN  finish(e.fs, a.store, a.ptr, md, Enc(e))
        ELSE IF ipfs_fail = "add"
             THEN out("IPFSError", fs, bl, js, metadata, NoResult, NoEnc)
             ELSE LET a == ipfs_add(bl, fs[file_path])
                      md == DictSet(metadata, "encrypted", FALSE)
                  IN  finish(fs, a.store, a.ptr, md, NoEnc)

\* a variant that hashes the file handed to the store (the ciphertext when a
\* password is given)
upload_dataset_HashStoredFile(self_salt, fs, bl, js, file_path, metadata, password, iv, ipfs_fail) ==
    LET e == encrypt_file(self_salt, fs, file_path, password, iv)
    IN  upload_steps(IF Truthy(password) /\ e.exc = ""
                     THEN _calculate_file_hash(e.fs, e.path)
                     ELSE _calculate_file_hash(fs, file_path),
                     self_salt, fs, bl, js, file_path, metadata, password, iv, ipfs_fail)

\* a variant that retries: when a store call fails, the upload is run again
\* against a store that answers
upload_dataset_RetryOnFailure(self_salt, fs, bl, js, file_path, metadata, password, iv, ipfs_fail) ==
    LET r == upload_steps(_calculate_file_hash(fs, file_path),
                          self_salt, fs, bl, js, file_path, metadata, password, iv, ipfs_fail)
    IN  IF r.exc = "IPFSError"
        THEN upload_steps(_calculate_file_hash(fs, file_path),
                          self_salt, fs, bl, js, file_path, metadata, password, iv, "")
        ELSE r

\* the hash is taken from file_path before anything else is done
upload_dataset(self_salt, fs, bl, js, file_path, metadata, password, iv, ipfs_fail) ==
    upload_steps(_calculate_file_hash(fs, file_path),
                 self_salt, fs, bl, js, file_path, metadata, password, iv, ipfs_fail)

\* a variant that decrypts whenever the record says encrypted
ShouldDecrypt_WheneverEncrypted(metadata, password) ==
    DictGet(metadata["metadata"], "encrypted", FALSE)

\* the test of retrieve_dataset: metadata is the object get_json returned
ShouldDecrypt(metadata, password) ==
    DictGet(metadata, "encrypted", FALSE) /\ Truthy(password)

NoMetadata == [file_hash |-> NoHash, ipfs_hash |-> 0, metadata |-> EmptyDict]

\* retrieve_dataset(metadata_hash, password)
retrieve_dataset(self_salt, fs, bl, js, metadata_hash, password, ipfs_fail) ==
    LET out(e, fs1, path, md, s) ==
            [exc |-> e, fs |-> fs1, path |-> path, metadata |-> md, self_salt |-> s]
    IN  IF ipfs_fail = "get_json" \/ metadata_hash \notin Ptrs(js)
        THEN out("IPFSError", fs, NoPath, NoMetadata, self_salt)
        ELSE LET metadata == js[metadata_hash]
                 dataset_path == IpfsPath(metadata["ipfs_hash"])
                 fs1 == DictSet(fs, dataset_path, bl[metadata["ipfs_hash"]])
             IN  IF ipfs_fail = "get" \/ metadata["ipfs_hash"] \notin Ptrs(bl)
                 THEN out("IPFSError", fs, NoPath, NoMetadata, self_salt)
                 ELSE IF ShouldDecrypt(metadata, password)
                 THEN IF "salt" \notin DOMAIN metadata
                      THEN out("KeyError", fs1, NoPath, NoMetadata, self_salt)
                      ELSE LET d == decrypt_file(fs1, dataset_path, password,
                                                 FromHex(metadata["salt"]))
                           IN  out(d.exc, d.fs, d.path,
                                   IF d.exc = "" THEN metadata ELSE NoMetadata, d.self_salt)
                 ELSE out("", fs1, dataset_path, metadata, self_salt)

----------------------------------------------------------------------------
(* The calls a client of one DataManager (and of its encryptor) can make *)

UploadFailures == {"", "add", "add_json"}
RetrieveFailures == {"", "get_json", "get"}

Init ==
    /\ salt \in Salts                                      \* os.urandom(16)
    /\ files \in [UserPaths -> {PlainFile(d) : d \in ByteSeqs}]
    /\ blobs = <<>>
    /\ jsons = <<>>
    /\ callerMeta = [m \in MetaIds |-> EmptyDict]
    /\ uploads = <<>>
    /\ encLog = <<>>
    /\ last = [op |-> "init", exc |-> ""]
    /\ nops = 0
    /\ ledger = <<>>
    /\ pc = <<>>
    /\ tl = <<>>

\* data_manager.upload_dataset(file_path, callerMeta[m], password)
UploadDataset(file_path, m, password, iv, ipfs_fail) ==
    /\ nops < MaxOps
    /\ LET r == upload_dataset(salt, files, blobs, jsons, file_path, callerMeta[m],
                               password, iv, ipfs_fail)
       IN  /\ files' = r.fs
           /\ blobs' = r.blobs
           /\ jsons' = r.jsons
           /\ callerMeta' = [callerMeta EXCEPT ![m] = r.metadata]
           /\ uploads' = IF r.exc = ""
                         THEN Append(uploads, [content |-> files[file_path],
                                               password |-> password,
                                               ret |-> r.ret])
                         ELSE uploads
           /\ encLog' = IF r.enc.called
                        THEN Append(encLog, [salt |-> r.enc.salt, key |-> r.enc.key])
                        ELSE encLog
           /\ last' = [op |-> "upload_dataset", exc |-> r.exc, file_path |-> file_path,
                       password |-> password, ret |-> r.ret, ipfs_fail |-> ipfs_fail]
    /\ nops' = nops + 1
    /\ UNCHANGED <<salt, ledger, pc, tl>>

\* data_manager.retrieve_dataset(metadata_hash, password)
RetrieveDataset(metadata_hash, password, ipfs_fail) ==
    /\ nops < MaxOps
    /\ LET r == retrieve_dataset(salt, files, blobs, jsons, metadata_hash, password, ipfs_fail)
       IN  /\ files' = r.fs
           /\ salt' = r.self_salt
           /\ last' = [op |-> "retrieve_dataset", exc |-> r.exc,
                       metadata_hash |-> metadata_hash, password |-> password,
                       path |-> r.path, metadata |-> r.metadata, ipfs_fail |-> ipfs_fail]
    /\ nops' = nops + 1
    /\ UNCHANGED <<blobs, jsons, callerMeta, uploads, encLog, ledger, pc, tl>>

\* encryption.generate_key(password)
GenerateKey(password) ==
    /\ nops < MaxOps
    /\ LET k == generate_key(salt, password)
       IN  last' = [op |-> "generate_key", exc |-> k.exc, password |-> password, key |-> k.key]
    /\ nops' = nops + 1
    /\ UNCHANGED <<salt, files, blobs, jsons, callerMeta, uploads, encLog, ledger, pc, tl>>

\* encryption.encrypt_file(file_path, password)
EncryptFile(file_path, password, iv) ==
    /\ nops < MaxOps
    /\ LET e == encrypt_file(salt, files, file_path, password, iv)
       IN  /\ files' = e.fs
           /\ encLog' = IF e.exc = ""
                        THEN Append(encLog, [salt |-> e.salt, key |-> e.key])
                        ELSE encLog
           /\ last' = [op |-> "encrypt_file", exc |-> e.exc, file_path |-> file_path,
                       password |-> password, path |-> e.path, salt |-> e.salt]
    /\ nops' = nops + 1
    /\ UNCHANGED <<salt, blobs, jsons, callerMeta, uploads, ledger, pc, tl>>

\* encryption.decrypt_file(encrypted_file_path, password, salt_arg)
DecryptFile(encrypted_file_path, password, salt_arg) ==
    /\ nops < MaxOps
    /\ LET d == decrypt_file(files, encrypted_file_path, password, salt_arg)
       IN  /\ files' = d.fs
           /\ salt' = d.self_salt
           /\ last' = [op |-> "decrypt_file", exc |-> d.exc,
                       token |-> files[encrypted_file_path],
                       password |-> password, salt_arg |-> salt_arg, path |-> d.path]
    /\ nops' = nops + 1
    /\ UNCHANGED <<blobs, jsons, callerMeta, uploads, encLog, ledger, pc, tl>>

Next ==
    \/ \E f \in UserPaths, m \in MetaIds, p \in PasswordArgs, iv \in IVs :
          UploadDataset(f, m, p, iv, "")
    \/ \E h \in 1..(Len(jsons) + 1), p \in PasswordArgs :
          RetrieveDataset(h, p, "")
    \/ \E p \in PasswordArgs : GenerateKey(p)
    \/ \E f \in UserPaths, p \in PasswordArgs, iv \in IVs : EncryptFile(f, p, iv)
    \/ \E f \in DOMAIN files, p \in PasswordArgs, s \in Salts : DecryptFile(f, p, s)

\* the store answers every call (an unknown pointer aside)
Spec == Init /\ [][Next]_vars

\* a path at which there is no file
MissingPath == UserPath("gone", <<".csv">>)

\* the same DataManager over a store whose calls may fail, and asked for
\* files that may not be there
FaultNext ==
    \/ \E f \in UserPaths \cup {MissingPath}, m \in MetaIds, p \in {None, "secret"}, iv \in IVs,
          x \in UploadFailures :
          UploadDataset(f, m, p, iv, x)
    \/ \E h \in 1..(Len(jsons) + 1), p \in {None, "secret"}, x \in RetrieveFailures :
          RetrieveDataset(h, p, x)

FaultSpec == Init /\ [][FaultNext]_vars

----------------------------------------------------------------------------
(* Properties of the storage facade and of the encryptor *)

\* sha256 of a whole byte sequence, taken in one piece
Sha256(content) == hexdigest(content, content.data)

\* the upload that produced the record the last retrieve_dataset asked for
RetrievedUploads ==
    {i \in DOMAIN uploads : /\ last.op = "retrieve_dataset"
                            /\ last.exc # "IPFSError"
                            /\ uploads[i].ret.metadata_hash = last.metadata_hash}

\* C1: upload_dataset(B, metadata, p) with a non-empty password p followed by
\* retrieve_dataset(returned metadata_hash, p) on the same DataManager yields
\* a file whose bytes are B, whatever calls were made before or in between.
C1_UploadRetrieveRoundTrip ==
    \A i \in RetrievedUploads :
        (Truthy(uploads[i].password) /\ last.password = uploads[i].password)
        => /\ last.exc = ""
           /\ files[last.path] = uploads[i].content

\* C2: retrieving an encrypted dataset with another password than the one of
\* the upload, or decrypting a token with another password or salt than the
\* ones it was made with, fails with the authentication error (InvalidToken);
\* no path to other bytes is returned.
C2_WrongPasswordFails ==
    /\ \A i \in RetrievedUploads :
          (/\ Truthy(uploads[i].password)
           /\ Truthy(last.password)
           /\ last.password # uploads[i].password)
          => last.exc = "InvalidToken"
    /\ (/\ last.op = "decrypt_file"
        /\ last.token.kind = "fernet"
        /\ last.password # None
        /\ PBKDF2HMAC(last.password, last.salt_arg) # last.token.key)
       => last.exc = "InvalidToken"

\* C3: every encryption uses a fresh salt: of two encrypt_file calls on the
\* same instance, the later one never returns the salt of the earlier one.
C3_FreshSaltPerEncryption ==
    \A i, j \in DOMAIN encLog : i < j => encLog[j].salt # encLog[i].salt

\* C4: a decrypt_file call leaves the encryptor's state unchanged, so that the
\* salt of a later encrypt_file does not depend on the salt argument of an
\* earlier decrypt_file.
C4_DecryptLeavesSaltUnchanged ==
    [][(nops' = nops + 1 /\ last'.op = "decrypt_file") => salt' = salt]_vars

\* C6: the file_hash an upload returns and records is the hash of the
\* plaintext bytes: the same for the same bytes, with or without a password,
\* and never the hash of the stored ciphertext.
C6_FileHashIsPlaintextHash ==
    \A i \in DOMAIN uploads :
        LET u == uploads[i]
            rec == jsons[u.ret.metadata_hash]
            blob == blobs[u.ret.ipfs_hash]
        IN  /\ u.ret.file_hash = Sha256(u.content)
            /\ rec["file_hash"] = u.ret.file_hash
            /\ Truthy(u.password) => u.ret.file_hash # Sha256(blob)
            /\ \A j \in DOMAIN uploads :
                  uploads[j].content = u.content => uploads[j].ret.file_hash = u.ret.file_hash

\* the same bytes were uploaded once with and once without a password
C6_Witness ==
    \E i, j \in DOMAIN uploads :
        /\ uploads[i].content = uploads[j].content
        /\ Truthy(uploads[i].password)
        /\ ~Truthy(uploads[j].password)
        /\ blobs[uploads[i].ret.ipfs_hash].kind = "fernet"

\* the record an encrypted upload left under pointer h
IsEncryptedRecord(js, h) ==
    h \in Ptrs(js) /\ DictGet(js[h]["metadata"], "encrypted", FALSE)

\* C7: retrieve_dataset on a record with encrypted=true and no password does
\* not decrypt: it returns the blob as fetched from the store, with metadata
\* whose encrypted flag is true, and changes neither the DataManager (its
\* store) nor the encryptor.
C7_RetrieveWithoutPasswordIsInert ==
    [][(/\ nops' = nops + 1
        /\ last'.op = "retrieve_dataset"
        /\ last'.password = None
        /\ last'.exc # "IPFSError"
        /\ IsEncryptedRecord(jsons, last'.metadata_hash))
       => /\ last'.exc = ""
          /\ files'[last'.path] = blobs[jsons[last'.metadata_hash]["ipfs_hash"]]
          /\ DictGet(last'.metadata["metadata"], "encrypted", FALSE)
          /\ salt' = salt
          /\ blobs' = blobs
          /\ jsons' = jsons]_vars

\* an encrypted record was retrieved without a password
C7_Witness ==
    /\ last.op = "retrieve_dataset"
    /\ last.password = None
    /\ last.exc = ""
    /\ IsEncryptedRecord(jsons, last.metadata_hash)
    /\ files[last.path].kind = "fernet"

\* C8: an empty password is rejected with WeakInputError: generate_key("")
\* derives no key and upload_dataset with password "" stores nothing.
C8_EmptyPasswordRejected ==
    /\ (last.op = "generate_key" /\ last.password = "")
       => (last.exc = "WeakInputError" /\ last.key = NoKey)
    /\ (last.op = "upload_dataset" /\ last.password = "")
       => (last.exc = "WeakInputError" /\ last.ret = NoResult)

\* C17: after every successful upload_dataset, the record stored under the
\* returned metadata_hash holds the file_hash and the ipfs_hash returned to
\* the caller, and the store yields under that ipfs_hash the blob this upload
\* stored: the file's bytes when no password was given (None or empty), else
\* their encryption under the key of the password and the recorded salt.
C17_RecordMatchesReturn ==
    \A i \in DOMAIN uploads :
        LET u == uploads[i]
        IN  /\ u.ret.metadata_hash \in Ptrs(jsons)
            /\ u.ret.ipfs_hash \in Ptrs(blobs)
            /\ LET rec == jsons[u.ret.metadata_hash]
                   blob == blobs[u.ret.ipfs_hash]
               IN  /\ rec["file_hash"] = u.ret.file_hash
                   /\ rec["ipfs_hash"] = u.ret.ipfs_hash
                   /\ IF Truthy(u.password)
                      THEN /\ blob.kind = "fernet"
                           /\ blob.data = u.content.data
                           /\ "salt" \in DOMAIN rec["metadata"]
                           /\ blob.key = PBKDF2HMAC(u.password, FromHex(rec["metadata"]["salt"]))
                      ELSE blob = u.content

\* two uploads have succeeded, one with and one without a password, and left
\* two blobs and two records
C17_Witness ==
    \E i, j \in DOMAIN uploads :
        /\ Truthy(uploads[i].password)
        /\ ~Truthy(uploads[j].password)
        /\ uploads[i].ret.ipfs_hash # uploads[j].ret.ipfs_hash
        /\ uploads[i].ret.metadata_hash # uploads[j].ret.metadata_hash
        /\ jsons[uploads[i].ret.metadata_hash]["ipfs_hash"] = uploads[i].ret.ipfs_hash

----------------------------------------------------------------------------
(* Failures of the store and of the file system *)

----------------------------------------------------------------------------
(* Threads calling encrypt_file and decrypt_file on one shared DataEncryption.
   A thread can be preempted between any two statements, so each statement
   that reads or writes self.salt or a file is a step of its own. *)

Threads == {"t1", "t2"}

\* files encrypted under password "secret" by earlier DataEncryption
\* instances, one per salt such an instance may have drawn
OldTokenPath(s) == UserPath("old", <<Hex(s)[1], Hex(s)[2], ".encrypted">>)
OldToken(s, d) == Fernet_encrypt(PBKDF2HMAC("secret", s), PlainFile(d), 1)
OldTokenPaths == {OldTokenPath(s) : s \in Salts}

NoCall == [op |-> "", file_path |-> NoPath, password |-> None, salt_arg |-> <<>>, iv |-> 0,
           key |-> NoKey, file_data |-> PlainFile(<<>>), exc |-> "",
           ret_path |-> NoPath, ret_salt |-> <<>>]

ConcInit ==
    /\ salt \in Salts
    /\ \E user \in [UserPaths -> {PlainFile(d) : d \in ByteSeqs}] :
          files = [p \in UserPaths \cup OldTokenPaths |->
                      IF p \in UserPaths THEN user[p]
                      ELSE OldToken(CHOOSE s \in Salts : OldTokenPath(s) = p, <<>>)]
    /\ blobs = <<>>
    /\ jsons = <<>>
    /\ callerMeta = [m \in MetaIds |-> EmptyDict]
    /\ uploads = <<>>
    /\ encLog = <<>>
    /\ last = [op |-> "init", exc |-> ""]
    /\ nops = 0
    /\ ledger = <<>>
    /\ pc = [t \in Threads |-> "idle"]
    /\ tl = [t \in Threads |-> NoCall]

\* the files a caller hands to decrypt_file
EncryptedPaths(fs) == {p \in DOMAIN fs : EndsWith(p, ".encrypted")}

ConcFrame == UNCHANGED <<blobs, jsons, callerMeta, uploads, encLog, last, ledger>>

\* thread t raises e out of its call
Raise(t, e) ==
    /\ pc' = [pc EXCEPT ![t] = "done"]
    /\ tl' = [tl EXCEPT ![t].exc = e]

\* thread t enters encrypt_file(file_path, password)
StartEncrypt(t, file_path, password, iv) ==
    /\ pc[t] \in {"idle", "done"}
    /\ nops < MaxOps
    /\ nops' = nops + 1
    /\ pc' = [pc EXCEPT ![t] = "e_key"]
    /\ tl' = [tl EXCEPT ![t] = [NoCall EXCEPT !.op = "encrypt_file", !.file_path = file_path,
                                              !.password = password, !.iv = iv]]
    /\ UNCHANGED <<salt, files>>
    /\ ConcFrame

\* encrypt_file line 24: key = self.generate_key(password), reads self.salt
E_Key(t) ==
    /\ pc[t] = "e_key"
    /\ LET k == generate_key(salt, tl[t].password)
       IN  IF k.exc # "" THEN Raise(t, k.exc)
           ELSE /\ pc' = [pc EXCEPT ![t] = "e_read"]
                /\ tl' = [tl EXCEPT ![t].key = k.key]
    /\ UNCHANGED <<salt, files, nops>>
    /\ ConcFrame

\* encrypt_file lines 27-28: file_data = file.read()
E_Read(t) ==
    /\ pc[t] = "e_read"
    /\ IF tl[t].file_path \notin DOMAIN files THEN Raise(t, "FileNotFoundError")
       ELSE /\ pc' = [pc EXCEPT ![t] = "e_write"]
            /\ tl' = [tl EXCEPT ![t].file_data = files[tl[t].file_path]]
    /\ UNCHANGED <<salt, files, nops>>
    /\ ConcFrame

\* encrypt_file lines 30-34: encrypt and write file_path + '.encrypted'
E_Write(t) ==
    /\ pc[t] = "e_write"
    /\ files' = DictSet(files, AddEncrypted(tl[t].file_path),
                        Fernet_encrypt(tl[t].key, tl[t].file_data, tl[t].iv))
    /\ pc' = [pc EXCEPT ![t] = "e_return"]
    /\ UNCHANGED <<salt, tl, nops>>
    /\ ConcFrame

\* encrypt_file line 36: return encrypted_file_path, self.salt
E_Return(t) ==
    /\ pc[t] = "e_return"
    /\ pc' = [pc EXCEPT ![t] = "done"]
    /\ tl' = [tl EXCEPT ![t].ret_path = AddEncrypted(tl[t].file_path), ![t].ret_salt = salt]
    /\ UNCHANGED <<salt, files, nops>>
    /\ ConcFrame

\* thread t enters decrypt_file(encrypted_file_path, password, salt_arg)
StartDecrypt(t, encrypted_file_path, password, salt_arg) ==
    /\ pc[t] \in {"idle", "done"}
    /\ nops < MaxOps
    /\ nops' = nops + 1
    /\ pc' = [pc EXCEPT ![t] = "d_salt"]
    /\ tl' = [tl EXCEPT ![t] = [NoCall EXCEPT !.op = "decrypt_file",
                                              !.file_path = encrypted_file_path,
                                              !.password = password, !.salt_arg = salt_arg]]
    /\ UNCHANGED <<salt, files>>
    /\ ConcFrame

\* decrypt_file line 40: self.salt = salt
D_SetSalt(t) ==
    /\ pc[t] = "d_salt"
    /\ salt' = tl[t].salt_arg
    /\ pc' = [pc EXCEPT ![t] = "d_key"]
    /\ UNCHANGED <<files, tl, nops>>
    /\ ConcFrame

\* decrypt_file line 41: key = self.generate_key(password), reads self.salt
D_Key(t) ==
    /\ pc[t] = "d_key"
    /\ LET k == generate_key(salt, tl[t].password)
       IN  IF k.exc # "" THEN Raise(t, k.exc)
           ELSE /\ pc' = [pc EXCEPT ![t] = "d_read"]
                /\ tl' = [tl EXCEPT ![t].key = k.key]
    /\ UNCHANGED <<salt, files, nops>>
    /\ ConcFrame

\* decrypt_file lines 44-45: encrypted_data = file.read()
D_Read(t) ==
    /\ pc[t] = "d_read"
    /\ IF tl[t].file_path \notin DOMAIN files THEN Raise(t, "FileNotFoundError")
       ELSE /\ pc' = [pc EXCEPT ![t] = "d_decrypt"]
            /\ tl' = [tl EXCEPT ![t].file_data = files[tl[t].file_path]]
    /\ UNCHANGED <<salt, files, nops>>
    /\ ConcFrame

\* decrypt_file lines 47-53: decrypt, write the '.decrypted' file, return
D_Decrypt(t) ==
    /\ pc[t] = "d_decrypt"
    /\ LET d == Fernet_decrypt(tl[t].key, tl[t].file_data)
           out == ReplaceEncrypted(tl[t].file_path)
       IN  IF d.exc # "" THEN Raise(t, d.exc) /\ UNCHANGED files
           ELSE /\ files' = DictSet(files, out, d.content)
                /\ pc' = [pc EXCEPT ![t] = "done"]
                /\ tl' = [tl EXCEPT ![t].ret_path = out]
    /\ UNCHANGED <<salt, nops>>
    /\ ConcFrame

ConcNext ==
    \/ \E t \in Threads, f \in UserPaths, p \in Passwords, iv \in IVs : StartEncrypt(t, f, p, iv)
    \/ \E t \in Threads : E_Key(t)
    \/ \E t \in Threads : E_Read(t)
    \/ \E t \in Threads : E_Write(t)
    \/ \E t \in Threads : E_Return(t)
    \/ \E t \in Threads, f \in EncryptedPaths(files), p \in Passwords, s \in Salts :
          StartDecrypt(t, f, p, s)
    \/ \E t \in Threads : D_SetSalt(t)
    \/ \E t \in Threads : D_Key(t)
    \/ \E t \in Threads : D_Read(t)
    \/ \E t \in Threads : D_Decrypt(t)

ConcSpec == ConcInit /\ [][ConcNext]_vars

\* C5: under every interleaving of encrypt_file and decrypt_file calls on one
\* shared DataEncryption, an encrypt_file returns the salt its key was derived
\* from, a decrypt_file derives its key from its own salt argument, and a
\* decrypt_file given the password and salt of its token succeeds.
C5_ConcurrentCallsUseOwnSalt ==
    \A t \in DOMAIN pc :
        /\ (pc[t] = "done" /\ tl[t].op = "encrypt_file" /\ tl[t].exc = "")
           => tl[t].ret_salt = tl[t].key.salt
        /\ (tl[t].op = "decrypt_file" /\ pc[t] \in {"d_read", "d_decrypt"})
           => tl[t].key.salt = tl[t].salt_arg
        /\ (/\ pc[t] = "done"
            /\ tl[t].op = "decrypt_file"
            /\ tl[t].file_data.kind = "fernet"
            /\ tl[t].file_data.key = PBKDF2HMAC(tl[t].password, tl[t].salt_arg))
           => tl[t].exc = ""

----------------------------------------------------------------------------
(* HTTP handlers of market_api that keep a temporary copy of the upload.
   A handler runs from the request to the response without yielding to
   another request, so each is one step.  data_manager and blockchain_manager
   are the module's singletons. *)

\* UploadFile: the client's file name (stem and suffixes) and its bytes
UploadNames == {[stem |-> "a", ext |-> <<".csv">>], [stem |-> "b", ext |-> <<".txt">>]}

\* the pandas readers of generate_preview: an empty file has nothing to parse
LoadsAsTable(content) == content.kind = "plain" /\ content.data # <<>>

\* DataManager.generate_preview(file_path, max_rows): every failure leaves as
\* ValueError
generate_preview(fs, file_path) ==
    IF ~(EndsWith(file_path, ".csv") \/ EndsWith(file_path, ".json")
         \/ EndsWith(file_path, ".parquet"))
    THEN [exc |-> "ValueError"]
    ELSE IF file_path \notin DOMAIN fs \/ ~LoadsAsTable(fs[file_path])
    THEN [exc |-> "ValueError"]
    ELSE [exc |-> ""]

\* os.remove(path)
Remove(fs, path) == [p \in (DOMAIN fs) \ {path} |-> fs[p]]

\* POST /datasets/preview
PreviewDataset(name, data) ==
    /\ nops < MaxOps
    /\ LET temp_path == TmpPath(name.stem, name.ext)
           fs1 == DictSet(files, temp_path, PlainFile(data))
           preview == generate_preview(fs1, temp_path)
       IN  IF preview.exc = ""
           THEN /\ files' = Remove(fs1, temp_path)
                /\ last' = [op |-> "preview_dataset", exc |-> "", status |-> 200,
                            temp_path |-> temp_path]
           ELSE /\ files' = fs1
                /\ last' = [op |-> "preview_dataset", exc |-> preview.exc, status |-> 500,
                            temp_path |-> temp_path]
    /\ nops' = nops + 1
    /\ UNCHANGED <<salt, blobs, jsons, callerMeta, uploads, encLog, ledger, pc, tl>>

\* a handler that lists the pointer of the stored blob
ListingArgument_BlobPointer(upload_result) == upload_result.ipfs_hash

\* the first argument of blockchain_manager.list_dataset in
\* create_encrypted_dataset: upload_result['metadata_hash']
ListingArgument(upload_result) == upload_result.metadata_hash

\* POST /datasets/encrypted; list_fail tells whether list_dataset raises.
\* The handler takes no token and calls no verify_token.
CreateEncryptedDataset(name, data, password, iv, ipfs_fail, list_fail) ==
    /\ nops < MaxOps
    /\ LET temp_path == TmpPath(name.stem, name.ext)
           fs1 == DictSet(files, temp_path, PlainFile(data))
           r == upload_dataset(salt, fs1, blobs, jsons, temp_path, EmptyDict,
                               password, iv, ipfs_fail)
           listed == r.exc = "" /\ ~list_fail
       IN  /\ files' = IF r.exc = "" THEN Remove(r.fs, temp_path) ELSE r.fs
           /\ blobs' = r.blobs
           /\ jsons' = r.jsons
           /\ uploads' = IF r.exc = ""
                         THEN Append(uploads, [content |-> PlainFile(data),
                                               password |-> password,
                                               ret |-> r.ret])
                         ELSE uploads
           /\ encLog' = IF r.enc.called
                        THEN Append(encLog, [salt |-> r.enc.salt, key |-> r.enc.key])
                        ELSE encLog
           /\ ledger' = IF listed
                        THEN Append(ledger, [op |-> "list_dataset",
                                             metadata_hash |-> ListingArgument(r.ret)])
                        ELSE ledger
           /\ last' = [op |-> "create_encrypted_dataset",
                       exc |-> IF r.exc # "" THEN r.exc
                               ELSE IF list_fail THEN "ContractError" ELSE "",
                       upload_exc |-> r.exc,
                       verified |-> FALSE,
                       status |-> IF listed THEN 200 ELSE 500,
                       temp_path |-> temp_path,
                       password |-> password,
                       ret |-> r.ret]
    /\ nops' = nops + 1
    /\ UNCHANGED <<salt, callerMeta, pc, tl>>

ApiNext ==
    \/ \E name \in UploadNames, data \in ByteSeqs : PreviewDataset(name, data)
    \/ \E name \in UploadNames, data \in ByteSeqs, p \in Passwords \cup {""}, iv \in IVs,
          x \in UploadFailures, lf \in BOOLEAN :
          CreateEncryptedDataset(name, data, p, iv, x, lf)

ApiSpec == Init /\ [][ApiNext]_vars

\* C9: when a request has finished, on whatever path (success, failure of
\* the preview, of the upload or of the ledger listing, any exception), the
\* temporary plaintext copy it wrote under /tmp has been deleted.
C9_TempFilesDeleted ==
    last.op \in {"preview_dataset", "create_encrypted_dataset"}
    => last.temp_path \notin DOMAIN files

----------------------------------------------------------------------------
(* DataValidator.  Python values of a caller-defined metadata mapping carry
   their type t; the value is in the field of that type (s for a str, n for
   an int, xs for a list, d for a dict). *)

PyValue(t, s, n, xs, d) == [t |-> t, s |-> s, n |-> n, xs |-> xs, d |-> d]
PyStr(s) == PyValue("str", s, 0, <<>>, EmptyDict)
PyInt(n) == PyValue("int", "", n, <<>>, EmptyDict)
PyNone == PyValue("NoneType", "", 0, <<>>, EmptyDict)
PyList(xs) == PyValue("list", "", 0, xs, EmptyDict)
PyDict(d) == PyValue("dict", "", 0, <<>>, d)

\* self.supported_formats
supported_formats == {"csv", "json", "parquet"}

\* str.lower() on the format names a caller may send
Lower(s) ==
    CASE s = "CSV" -> "csv"
      [] s = "Json" -> "json"
      [] OTHER -> s

\* a DataFrame: its columns with their dtype, and its number of rows
Table(columns, rows) == [columns |-> columns, rows |-> rows]
NoTable == Table(EmptyDict, 0)

\* df.empty
IsEmpty(df) == df.rows = 0 \/ DOMAIN df.columns = {}

\* a file on disk: whether it can be opened, the format its bytes are in
\* ("" for bytes in no format) and the table they hold
DataFile(exists, format, table) == [exists |-> exists, format |-> format, table |-> table]

\* pd.read_csv / pd.read_json / pd.read_parquet: raise on a file that cannot
\* be opened or whose bytes are not in the reader's format
read_table(file_format, file) ==
    IF file.exists /\ file.format = file_format
    THEN [exc |-> "", df |-> file.table]
    ELSE [exc |-> "Exception", df |-> NoTable]

\* validate_checks without the required-columns check of lines 27-29
validate_checks_NoRequiredColumns(file_format, file, metadata) ==
    LET r == read_table(file_format, file)
        column_types == DictGet(metadata, "column_types", PyDict(EmptyDict))
    IN  IF r.exc # "" THEN FALSE
        ELSE IF IsEmpty(r.df) THEN FALSE
        ELSE IF column_types.t # "dict" THEN FALSE
        ELSE IF \E col \in DOMAIN column_types.d :
                   col \in DOMAIN r.df.columns /\ r.df.columns[col] # column_types.d[col]
             THEN FALSE
        ELSE TRUE

\* lines 16-37 of validate_dataset, the body of the try; any exception in it
\* is caught and gives False
validate_checks(file_format, file, metadata) ==
    LET r == read_table(file_format, file)
        required_columns == DictGet(metadata, "required_columns", PyList(<<>>))
        column_types == DictGet(metadata, "column_types", PyDict(EmptyDict))
    IN  IF r.exc # "" THEN FALSE
        ELSE IF IsEmpty(r.df) THEN FALSE
        ELSE IF required_columns.t # "list" THEN FALSE             \* TypeError, caught
        ELSE IF ~(\A i \in DOMAIN required_columns.xs :
                     required_columns.xs[i] \in DOMAIN r.df.columns) THEN FALSE
        ELSE IF column_types.t # "dict" THEN FALSE                 \* AttributeError, caught
        ELSE IF \E col \in DOMAIN column_types.d :
                   col \in DOMAIN r.df.columns /\ r.df.columns[col] # column_types.d[col]
             THEN FALSE
        ELSE TRUE

\* validate_dataset(file_path, metadata); line 10 runs outside the try
validate_dataset(file, metadata) ==
    LET format == DictGet(metadata, "format", PyStr(""))
    IN  IF format.t # "str"
        THEN [exc |-> "AttributeError", ret |-> FALSE]   \* no method lower()
        ELSE LET file_format == Lower(format.s)
             IN  IF file_format \notin supported_formats
                 THEN [exc |-> "", ret |-> FALSE]
                 ELSE [exc |-> "", ret |-> validate_checks(file_format, file, metadata)]

\* the inputs validate_dataset is called with
ValidatorTables ==
    {Table(EmptyDict, 0),
     Table([c \in {"id"} |-> "int64"], 0),
     Table([c \in {"id"} |-> "int64"], MaxLen),
     Table([c \in {"id", "value"} |-> IF c = "id" THEN "int64" ELSE "float64"], MaxLen)}

ValidatorFiles ==
    {DataFile(FALSE, "", NoTable)}
    \cup {DataFile(TRUE, f, tb) : f \in {"csv", "json", ""}, tb \in ValidatorTables}

FormatValues == {PyStr("csv"), PyStr("CSV"), PyStr("json"), PyStr("parquet"), PyStr("txt"),
                 PyNone, PyInt(5)}
RequiredColumnsValues == {PyList(<<>>), PyList(<<"id">>), PyList(<<"id", "value">>), PyInt(5), PyNone}
ColumnTypesValues ==
    {PyDict(EmptyDict), PyDict([c \in {"id"} |-> "int64"]), PyDict([c \in {"id"} |-> "float64"]),
     PyDict([c \in {"value"} |-> "float64"]), PyList(<<>>), PyNone}

\* a dict with the given entry for each key, and no entry where absent holds
ValidatorMetadata ==
    {[k \in ks |-> CASE k = "format" -> f
                     [] k = "required_columns" -> rc
                     [] k = "column_types" -> ct] :
        ks \in SUBSET {"format", "required_columns", "column_types"},
        f \in FormatValues, rc \in RequiredColumnsValues, ct \in ColumnTypesValues}

\* a DataValidator and the call it is about to serve
ValidatorInit ==
    /\ salt \in Salts
    /\ files = [p \in UserPaths |-> PlainFile(<<>>)]
    /\ blobs = <<>>
    /\ jsons = <<>>
    /\ callerMeta = [m \in MetaIds |-> EmptyDict]
    /\ uploads = <<>>
    /\ encLog = <<>>
    /\ \E file \in ValidatorFiles, metadata \in ValidatorMetadata :
          last = [op |-> "validate_dataset", at |-> "called", exc |-> "", ret |-> FALSE,
                  file |-> file, metadata |-> metadata]
    /\ nops = 0
    /\ ledger = <<>>
    /\ pc = <<>>
    /\ tl = <<>>

\* validator.validate_dataset(file_path, metadata) runs to its end
ValidateDataset ==
    /\ last.op = "validate_dataset"
    /\ last.at = "called"
    /\ LET r == validate_dataset(last.file, last.metadata)
       IN  last' = [last EXCEPT !.at = "returned", !.exc = r.exc, !.ret = r.ret]
    /\ nops' = nops + 1
    /\ UNCHANGED <<salt, files, blobs, jsons, callerMeta, uploads, encLog, ledger, pc, tl>>

ValidatorNext == ValidateDataset

ValidatorSpec == ValidatorInit /\ [][ValidatorNext]_vars

\* C10: validate_dataset never raises: for every file and every metadata
\* mapping, also one whose format, required_columns or column_types entry is
\* missing or of an unexpected type, it returns a boolean.
C10_ValidateNeverRaises ==
    (last.op = "validate_dataset" /\ last.at = "returned")
    => (last.exc = "" /\ last.ret \in BOOLEAN)

----------------------------------------------------------------------------
(* The four gate checks of the validator, as the documentation states them *)

\* the call that has returned, and the table its file loads to
Validated == last.op = "validate_dataset" /\ last.at = "returned"
DeclaredFormat == DictGet(last.metadata, "format", PyStr(""))
DeclaredRequiredColumns == DictGet(last.metadata, "required_columns", PyList(<<>>))
DeclaredColumnTypes == DictGet(last.metadata, "column_types", PyDict(EmptyDict))

\* the file loads, as the format f, to a table that is not empty
LoadsNonEmpty(f) ==
    /\ last.file.exists
    /\ last.file.format = f
    /\ ~IsEmpty(last.file.table)

\* every name in required_columns is a column of the table
RequiredColumnsPresent ==
    /\ DeclaredRequiredColumns.t = "list"
    /\ \A i \in DOMAIN DeclaredRequiredColumns.xs :
          DeclaredRequiredColumns.xs[i] \in DOMAIN last.file.table.columns

\* every entry of column_types names a column of the table whose dtype is the
\* declared one
ColumnTypesAllMatch ==
    /\ DeclaredColumnTypes.t = "dict"
    /\ \A col \in DOMAIN DeclaredColumnTypes.d :
          /\ col \in DOMAIN last.file.table.columns
          /\ last.file.table.columns[col] = DeclaredColumnTypes.d[col]

\* every entry of column_types that names a column of the table declares that
\* column's dtype
ColumnTypesPresentMatch ==
    /\ DeclaredColumnTypes.t = "dict"
    /\ \A col \in DOMAIN DeclaredColumnTypes.d :
          col \in DOMAIN last.file.table.columns
          => last.file.table.columns[col] = DeclaredColumnTypes.d[col]

\* C11 (as stated): validate_dataset returns true if and only if the declared
\* format (in any letter case) is one of csv/json/parquet, the loaded table is
\* non-empty, every required column is a column of the table and every entry
\* of column_types matches the actual type of the column it names.
C11_TrueIffAllGateChecks ==
    Validated =>
        ((last.exc = "" /\ last.ret = TRUE)
         <=> /\ DeclaredFormat.t = "str"
             /\ Lower(DeclaredFormat.s) \in supported_formats
             /\ LoadsNonEmpty(Lower(DeclaredFormat.s))
             /\ RequiredColumnsPresent
             /\ ColumnTypesAllMatch)

\* C11 (amended): validate_dataset returns true if and only if the declared
\* format (in any letter case) is one of csv/json/parquet, the loaded table is
\* non-empty, every required column is a column of the table and every entry
\* of column_types that names a column of the table declares that column's
\* type; required_columns = [id, value] against a table with the only column
\* id gives false.
C11_TrueIffGateChecksOnPresentColumns ==
    Validated =>
        /\ (last.exc = "" /\ last.ret = TRUE)
           <=> /\ DeclaredFormat.t = "str"
               /\ Lower(DeclaredFormat.s) \in supported_formats
               /\ LoadsNonEmpty(Lower(DeclaredFormat.s))
               /\ RequiredColumnsPresent
               /\ ColumnTypesPresentMatch
        /\ (/\ DeclaredRequiredColumns = PyList(<<"id", "value">>)
            /\ DOMAIN last.file.table.columns = {"id"})
           => ~(last.exc = "" /\ last.ret = TRUE)

\* a call that returned true for a table with rows under declared required
\* columns and column types
C11_Witness ==
    /\ Validated
    /\ last.exc = ""
    /\ last.ret = TRUE
    /\ "required_columns" \in DOMAIN last.metadata
    /\ DeclaredRequiredColumns.xs # <<>>
    /\ "column_types" \in DOMAIN last.metadata
    /\ DOMAIN DeclaredColumnTypes.d # {}

----------------------------------------------------------------------------
(* Numbers: Python and numpy floats as exact fractions, with NaN *)

Abs(x) == IF x < 0 THEN -x ELSE x

RECURSIVE GCD(_, _)
GCD(a, b) == IF b = 0 THEN a ELSE GCD(b, a % b)

\* the fraction n/d, d > 0, in lowest terms
Frac(n, d) ==
    LET g == GCD(Abs(n), d)
    IN  [nan |-> FALSE, n |-> n \div g, d |-> d \div g]

\* float('nan')
NaN == [nan |-> TRUE, n |-> 0, d |-> 1]

Whole(k) == Frac(k, 1)

\* a + b, a - b, a * b on floats: NaN if an operand is NaN
FAdd(a, b) == IF a.nan \/ b.nan THEN NaN ELSE Frac(a.n * b.d + b.n * a.d, a.d * b.d)
FSub(a, b) == IF a.nan \/ b.nan THEN NaN ELSE Frac(a.n * b.d - b.n * a.d, a.d * b.d)
FMul(a, b) == IF a.nan \/ b.nan THEN NaN ELSE Frac(a.n * b.n, a.d * b.d)

\* a < b and a == b on floats: every comparison with NaN is false
FLess(a, b) == ~a.nan /\ ~b.nan /\ a.n * b.d < b.n * a.d
FEq(a, b) == ~a.nan /\ ~b.nan /\ a.n * b.d = b.n * a.d
FLeq(a, b) == FLess(a, b) \/ FEq(a, b)

\* n / d for a numpy integer n and an int d: nan, with a warning, when both are 0
NumpyDiv(n, d) == IF d = 0 THEN NaN ELSE Frac(n, d)

\* np.mean of a non-empty list of floats
RECURSIVE FSum(_)
FSum(xs) == IF xs = <<>> THEN Whole(0) ELSE FAdd(xs[1], FSum(Tail(xs)))
np_mean(xs) ==
    LET s == FSum(xs)
    IN  IF s.nan THEN NaN ELSE Frac(s.n, s.d * Len(xs))

----------------------------------------------------------------------------
(* DataFrames with their cells *)

\* a cell: an integer, or missing
Cell(v) == [null |-> FALSE, v |-> v]
Null == [null |-> TRUE, v |-> 0]

\* a column: numeric cells or text cells (v numbers the text)
Column(kind, cells) == [kind |-> kind, cells |-> cells]

\* df[col].dtype: text is object; integers are int64, float64 once a value
\* is missing
dtype(col) ==
    IF col.kind = "text" THEN "object"
    ELSE IF \E i \in DOMAIN col.cells : col.cells[i].null THEN "float64"
    ELSE "int64"

\* a DataFrame: named columns of one length, in the order of names
Frame(names, cols) == [names |-> names, cols |-> cols]
NoFrame == Frame(<<>>, EmptyDict)

\* len(df), df.shape
FrameLen(df) == IF df.names = <<>> THEN 0 ELSE Len(df.cols[df.names[1]].cells)

\* the values of a column that are not missing, in row order
RECURSIVE NonNull(_)
NonNull(cells) ==
    IF cells = <<>> THEN <<>>
    ELSE IF cells[1].null THEN NonNull(Tail(cells))
    ELSE <<cells[1].v>> \o NonNull(Tail(cells))

\* ascending order of a sequence of integers
RECURSIVE Insert(_, _)
Insert(x, s) ==
    IF s = <<>> THEN <<x>>
    ELSE IF x <= s[1] THEN <<x>> \o s
    ELSE <<s[1]>> \o Insert(x, Tail(s))
RECURSIVE Sorted(_)
Sorted(s) == IF s = <<>> THEN <<>> ELSE Insert(s[1], Sorted(Tail(s)))

RECURSIVE SumSeq(_)
SumSeq(s) == IF s = <<>> THEN 0 ELSE s[1] + SumSeq(Tail(s))

\* the names of the columns whose dtype is int64 or float64, in order
NumericNames(df) == SelectSeq(df.names, LAMBDA c : dtype(df.cols[c]) \in {"int64", "float64"})

\* df.isnull().sum().sum()
NullCount(df) ==
    SumSeq([i \in DOMAIN df.names |->
               Cardinality({j \in DOMAIN df.cols[df.names[i]].cells :
                               df.cols[df.names[i]].cells[j].null})])

----------------------------------------------------------------------------
(* QualityChecker: the six metrics *)

\* a float result or the exception raised instead
Value(v) == [exc |-> "", v |-> v]
Raised(e) == [exc |-> e, v |-> NaN]

\* a quantile without interpolation: the value at the position rounded down
Quantile4_NoInterpolation(vs, q4) ==
    LET s == Sorted(vs)
    IN  4 * s[((Len(s) - 1) * q4) \div 4 + 1]

\* 4 * Series.quantile(q4 / 4) by linear interpolation over the sorted values
\* that are not missing; vs is not empty
Quantile4(vs, q4) ==
    LET s == Sorted(vs)
        pos4 == (Len(s) - 1) * q4
        k == pos4 \div 4
        r == pos4 % 4
    IN  IF r = 0 THEN 4 * s[k + 1]
        ELSE 4 * s[k + 1] + r * (s[k + 2] - s[k + 1])

\* lines 64-69: the number of rows of the column outside
\* [Q1 - 1.5 * IQR, Q3 + 1.5 * IQR]; a missing value and a missing bound
\* compare false
IqrOutliers(col) ==
    LET vs == NonNull(col.cells)
    IN  IF vs = <<>> THEN 0
        ELSE LET Q1 == Quantile4(vs, 1)
                 Q3 == Quantile4(vs, 3)
                 IQR == Q3 - Q1
             IN  Cardinality({i \in DOMAIN col.cells :
                     /\ ~col.cells[i].null
                     /\ \/ 8 * col.cells[i].v < 2 * Q1 - 3 * IQR
                        \/ 8 * col.cells[i].v > 2 * Q3 + 3 * IQR})

\* lines 81-83: the number of rows with abs(value - mean) > 3 * std, std the
\* sample standard deviation (NaN below two values)
SigmaOutliers(col) ==
    LET vs == NonNull(col.cells)
        m == Len(vs)
        S == SumSeq(vs)
        SS == SumSeq([i \in DOMAIN vs |-> (m * vs[i] - S) * (m * vs[i] - S)])
    IN  IF m < 2 THEN 0
        ELSE Cardinality({i \in DOMAIN col.cells :
                 /\ ~col.cells[i].null
                 /\ (m * col.cells[i].v - S) * (m * col.cells[i].v - S) * (m - 1) > 9 * SS})

\* 1 - count / len(df) on Python ints
OneMinusRatio(count, n) ==
    IF n = 0 THEN Raised("ZeroDivisionError") ELSE Value(Frac(n - count, n))

\* the scores of a loop over the numeric columns, or its first exception,
\* and the mean the method returns (1.0 without numeric columns)
RECURSIVE FirstRaised(_)
FirstRaised(rs) ==
    IF rs = <<>> THEN ""
    ELSE IF rs[1].exc # "" THEN rs[1].exc
    ELSE FirstRaised(Tail(rs))
MeanOrOne(rs) ==
    IF FirstRaised(rs) # "" THEN Raised(FirstRaised(rs))
    ELSE IF rs = <<>> THEN Value(Whole(1))
    ELSE Value(np_mean([i \in DOMAIN rs |-> rs[i].v]))

_check_completeness(df) ==
    Value(FSub(Whole(1), NumpyDiv(NullCount(df), FrameLen(df) * Len(df.names))))

_check_consistency(df) ==
    LET cols == NumericNames(df)
    IN  MeanOrOne([i \in DOMAIN cols |->
                      OneMinusRatio(IqrOutliers(df.cols[cols[i]]), FrameLen(df))])

_check_accuracy(df) ==
    LET cols == NumericNames(df)
    IN  MeanOrOne([i \in DOMAIN cols |->
                      OneMinusRatio(SigmaOutliers(df.cols[cols[i]]), FrameLen(df))])

\* self.quality_thresholds
quality_thresholds ==
    [m \in {"completeness", "consistency", "accuracy", "timeliness"} |->
        CASE m = "completeness" -> Frac(9, 10)
          [] m = "consistency" -> Frac(95, 100)
          [] m = "accuracy" -> Frac(95, 100)
          [] m = "timeliness" -> Whole(30)]

\* datetime.fromisoformat on the timestamps a caller sends, as a day number
\* and whether the value carries a UTC offset
fromisoformat(s) ==
    CASE s = "2024-01-01T00:00:00" -> [exc |-> "", day |-> 0, aware |-> FALSE]
      [] s = "2024-02-15T00:00:00" -> [exc |-> "", day |-> 45, aware |-> FALSE]
      [] s = "2024-03-01T00:00:00" -> [exc |-> "", day |-> 60, aware |-> FALSE]
      [] s = "2024-03-16T00:00:00" -> [exc |-> "", day |-> 75, aware |-> FALSE]
      [] s = "2024-06-01T00:00:00" -> [exc |-> "", day |-> 152, aware |-> FALSE]
      [] s = "2024-03-01T00:00:00+00:00" -> [exc |-> "", day |-> 60, aware |-> TRUE]
      [] OTHER -> [exc |-> "ValueError", day |-> 0, aware |-> FALSE]

\* datetime.now(): the day the call runs, 2024-03-16
Today == 75

\* max(0, x)
Max0(x) == IF FLess(Whole(0), x) THEN x ELSE Whole(0)

_check_timeliness(metadata) ==
    IF "last_updated" \notin DOMAIN metadata THEN Value(Frac(1, 2))
    ELSE IF metadata["last_updated"].t # "str" THEN Raised("TypeError")
    ELSE LET last_updated == fromisoformat(metadata["last_updated"].s)
         IN  IF last_updated.exc # "" THEN Raised(last_updated.exc)
             ELSE IF last_updated.aware THEN Raised("TypeError")
             ELSE LET days_old == Today - last_updated.day
                  IN  Value(Max0(FSub(Whole(1),
                                      FMul(Whole(days_old),
                                           Frac(1, quality_thresholds["timeliness"].n)))))

\* lines 100-110; on a DataFrame nothing in the try raises, so the except of
\* line 112 is not taken; the count over len(df) is a numpy division
_check_format_validity(df) ==
    LET numeric_cols == NumericNames(df)
        invalid_count(c) == Cardinality({j \in DOMAIN df.cols[c].cells : df.cols[c].cells[j].null})
        format_scores == [i \in DOMAIN numeric_cols |->
                             FSub(Whole(1), NumpyDiv(invalid_count(numeric_cols[i]), FrameLen(df)))]
    IN  IF format_scores = <<>> THEN Value(Whole(1)) ELSE Value(np_mean(format_scores))

\* a variant that credits every expected column the table has, whatever its
\* type
_check_schema_compliance_PresenceOnly(df, metadata) ==
    IF "schema" \notin DOMAIN metadata THEN Value(Frac(1, 2))
    ELSE LET expected_schema == metadata["schema"]
             actual == {df.names[i] : i \in DOMAIN df.names}
         IN  IF expected_schema.t # "dict" THEN Raised("TypeError")
             ELSE IF DOMAIN expected_schema.d = {} THEN Raised("ZeroDivisionError")
             ELSE Value(Frac(Cardinality(DOMAIN expected_schema.d \cap actual),
                             Cardinality(DOMAIN expected_schema.d)))

_check_schema_compliance(df, metadata) ==
    IF "schema" \notin DOMAIN metadata THEN Value(Frac(1, 2))
    ELSE LET expected_schema == metadata["schema"]
             actual == {df.names[i] : i \in DOMAIN df.names}
         IN  CASE expected_schema.t = "dict" ->
                    LET matching_columns ==
                            Cardinality({col \in DOMAIN expected_schema.d :
                                /\ col \in actual
                                /\ dtype(df.cols[col]) = expected_schema.d[col]})
                        n == Cardinality(DOMAIN expected_schema.d)
                    IN  IF n = 0 THEN Raised("ZeroDivisionError")
                        ELSE Value(Frac(matching_columns, n))
               [] expected_schema.t = "list" ->
                    IF \E i \in DOMAIN expected_schema.xs : expected_schema.xs[i] \in actual
                    THEN Raised("TypeError")         \* a list indexed by a name
                    ELSE IF expected_schema.xs = <<>> THEN Raised("ZeroDivisionError")
                    ELSE Value(Whole(0))
               [] OTHER -> Raised("TypeError")       \* not iterable

----------------------------------------------------------------------------
(* QualityChecker: the report *)

\* the keys of quality_scores in the order of the dict literal of lines 20-27
Metrics ==
    <<"completeness", "consistency", "accuracy", "timeliness", "format_validity",
      "schema_compliance">>

\* the weights of lines 30-37
weights_TimelinessDoubled ==
    [m \in {Metrics[i] : i \in DOMAIN Metrics} |->
        CASE m = "completeness" -> Frac(3, 10)
          [] m = "consistency" -> Frac(2, 10)
          [] m = "accuracy" -> Frac(2, 10)
          [] m = "timeliness" -> Frac(2, 10)
          [] OTHER -> Frac(1, 10)]

weights ==
    [m \in {Metrics[i] : i \in DOMAIN Metrics} |->
        CASE m = "completeness" -> Frac(3, 10)
          [] m = "consistency" -> Frac(2, 10)
          [] m = "accuracy" -> Frac(2, 10)
          [] m = "timeliness" -> Frac(1, 10)
          [] m = "format_validity" -> Frac(1, 10)
          [] m = "schema_compliance" -> Frac(1, 10)]

\* the advisory appended for a metric, lines 136-159
Advisory(metric) ==
    CASE metric = "completeness" ->
            "Consider handling missing values or collecting more complete data"
      [] metric = "consistency" -> "Review and handle outliers in the dataset"
      [] metric = "accuracy" -> "Validate extreme values and consider data cleaning"
      [] metric = "timeliness" -> "Update the dataset with more recent data"
      [] metric = "format_validity" -> "Review data types and format specifications"
      [] metric = "schema_compliance" -> "Ensure data follows the expected schema"

\* a threshold lookup that ignores quality_thresholds
Threshold_AlwaysDefault(metric) == Frac(9, 10)

\* self.quality_thresholds.get(metric, 0.9)
Threshold(metric) ==
    IF metric \in DOMAIN quality_thresholds THEN quality_thresholds[metric] ELSE Frac(9, 10)

\* _generate_recommendations(scores); scores are the items of the dict, a
\* sequence of <<metric, score>> in insertion order
RECURSIVE _generate_recommendations(_)
_generate_recommendations(scores) ==
    IF scores = <<>> THEN <<>>
    ELSE LET metric == scores[1][1]
             score == scores[1][2]
         IN  (IF FLess(score, Threshold(metric)) THEN <<Advisory(metric)>> ELSE <<>>)
             \o _generate_recommendations(Tail(scores))

\* sum(score * weights[metric] for metric, score in quality_scores.items())
RECURSIVE WeightedSum(_)
WeightedSum(scores) ==
    IF scores = <<>> THEN Whole(0)
    ELSE FAdd(FMul(scores[1][2], weights[scores[1][1]]), WeightedSum(Tail(scores)))

\* what evaluate_quality hands back: a report, or ValueError with the message
\* of the exception it caught
NoReport == [overall_score |-> NaN, detailed_scores |-> <<>>, recommendations |-> <<>>]
Wrapped(cause) == [exc |-> "ValueError", cause |-> cause, report |-> NoReport]

\* a file for the loader: its extension, whether its bytes parse, and the
\* table they hold
QFile(ext, readable, df) == [ext |-> ext, readable |-> readable, df |-> df]

\* self._load_dataset(file_path), line 18: the loader picks the reader by the
\* extension and rejects any other extension
QualityChecker_load_dataset(file) ==
    IF file.ext \notin {".csv", ".json", ".parquet"} THEN [exc |-> "ValueError", df |-> NoFrame]
    ELSE IF ~file.readable THEN [exc |-> "Exception", df |-> NoFrame]
    ELSE [exc |-> "", df |-> file.df]

\* lines 20-27: the six scores in order, up to the first exception
MetricResults(df, metadata) ==
    <<_check_completeness(df), _check_consistency(df), _check_accuracy(df),
      _check_timeliness(metadata), _check_format_validity(df),
      _check_schema_compliance(df, metadata)>>

evaluate_quality(file, metadata) ==
    LET load == QualityChecker_load_dataset(file)
    IN  IF load.exc # "" THEN Wrapped(load.exc)
        ELSE LET rs == MetricResults(load.df, metadata)
             IN  IF FirstRaised(rs) # "" THEN Wrapped(FirstRaised(rs))
                 ELSE LET quality_scores == [i \in DOMAIN Metrics |-> <<Metrics[i], rs[i].v>>]
                      IN  [exc |-> "", cause |-> "",
                           report |-> [overall_score |-> WeightedSum(quality_scores),
                                       detailed_scores |-> quality_scores,
                                       recommendations |->
                                           _generate_recommendations(quality_scores)]]

----------------------------------------------------------------------------
(* Calls of evaluate_quality *)

Ints(s) == [i \in DOMAIN s |-> Cell(s[i])]

\* the sequences of length n over a set
SeqsOfLen(S, n) == [1..n -> S]

\* the tables the files hold: a header without rows (text and, from parquet,
\* int64), the table of the documentation's outlier example alone and next
\* to a column without outliers, a table with missing cells, a float64
\* column age, and every single numeric column of up to MaxLen + 1 cells
QualityFrames ==
    {Frame(<<"name">>, [c \in {"name"} |-> Column("text", <<>>)]),
     Frame(<<"x">>, [c \in {"x"} |-> Column("num", <<>>)]),
     Frame(<<"x">>, [c \in {"x"} |-> Column("num", Ints(<<1, 2, 3, 4, 100>>))]),
     Frame(<<"x", "y">>,
           [c \in {"x", "y"} |-> IF c = "x" THEN Column("num", Ints(<<1, 2, 3, 4, 100>>))
                                 ELSE Column("num", Ints(<<1, 2, 3, 4, 5>>))]),
     Frame(<<"x", "name">>,
           [c \in {"x", "name"} |-> IF c = "x" THEN Column("num", <<Cell(1), Null>>)
                                    ELSE Column("text", <<Cell(1), Null>>)]),
     Frame(<<"age">>, [c \in {"age"} |-> Column("num", <<Cell(30), Null>>)])}
    \cup {Frame(<<"x">>, [c \in {"x"} |-> Column("num", cells)]) :
             cells \in UNION {SeqsOfLen({Cell(1), Cell(9), Null}, n) : n \in 1..(MaxLen + 1)}}

QualityFiles ==
    {QFile(".csv", FALSE, NoFrame), QFile(".txt", TRUE, NoFrame)}
    \cup {QFile(".csv", TRUE, df) : df \in QualityFrames}

LastUpdatedValues ==
    {PyStr("2024-01-01T00:00:00"), PyStr("2024-02-15T00:00:00"), PyStr("2024-03-01T00:00:00"),
     PyStr("2024-03-16T00:00:00"), PyStr("2024-06-01T00:00:00"),
     PyStr("2024-03-01T00:00:00+00:00"), PyStr("yesterday"), PyNone}

SchemaValues ==
    {PyDict(EmptyDict),
     PyDict([c \in {"x"} |-> "int64"]),
     PyDict([c \in {"x", "y"} |-> IF c = "x" THEN "float64" ELSE "int64"]),
     PyDict([c \in {"age"} |-> "int"]),
     PyList(<<"x">>),
     PyNone}

QualityMetadata ==
    {[k \in ks |-> CASE k = "last_updated" -> lu
                     [] k = "schema" -> sc] :
        ks \in SUBSET {"last_updated", "schema"},
        lu \in LastUpdatedValues, sc \in SchemaValues}

\* a QualityChecker and the call it is about to serve
QualityInit ==
    /\ salt \in Salts
    /\ files = [p \in UserPaths |-> PlainFile(<<>>)]
    /\ blobs = <<>>
    /\ jsons = <<>>
    /\ callerMeta = [m \in MetaIds |-> EmptyDict]
    /\ uploads = <<>>
    /\ encLog = <<>>
    /\ \E file \in QualityFiles, metadata \in QualityMetadata :
          last = [op |-> "evaluate_quality", at |-> "called", exc |-> "", cause |-> "",
                  report |-> NoReport, file |-> file, metadata |-> metadata]
    /\ nops = 0
    /\ ledger = <<>>
    /\ pc = <<>>
    /\ tl = <<>>

\* quality_checker.evaluate_quality(file_path, metadata) runs to its end
EvaluateQuality ==
    /\ last.op = "evaluate_quality"
    /\ last.at = "called"
    /\ LET r == evaluate_quality(last.file, last.metadata)
       IN  last' = [last EXCEPT !.at = "returned", !.exc = r.exc, !.cause = r.cause,
                                !.report = r.report]
    /\ nops' = nops + 1
    /\ UNCHANGED <<salt, files, blobs, jsons, callerMeta, uploads, encLog, ledger, pc, tl>>

QualityNext == EvaluateQuality

QualitySpec == QualityInit /\ [][QualityNext]_vars

\* a call of evaluate_quality has returned a report
Reported == last.op = "evaluate_quality" /\ last.at = "returned" /\ last.exc = ""

\* detailed_scores[m] of the report
Score(m) ==
    LET i == CHOOSE j \in DOMAIN last.report.detailed_scores :
                 last.report.detailed_scores[j][1] = m
    IN  last.report.detailed_scores[i][2]

\* the same float: equal numbers, or undefined both
SameFloat(a, b) == (a.nan /\ b.nan) \/ FEq(a, b)

\* C12: in every report, overall_score equals the sum of detailed_scores[m] *
\* weight[m] over the six metrics with the weights 0.30, 0.20, 0.20, 0.10,
\* 0.10, 0.10, which sum to 1.0, and detailed_scores has exactly the six keys
\* (the sum over an undefined score is undefined, and so is overall_score).
C12_OverallIsWeightedSum ==
    Reported =>
        /\ Len(last.report.detailed_scores) = 6
        /\ {last.report.detailed_scores[i][1] : i \in 1..6}
              = {"completeness", "consistency", "accuracy", "timeliness", "format_validity",
                 "schema_compliance"}
        /\ SameFloat(last.report.overall_score,
               FSum(<<FMul(Score("completeness"), Frac(30, 100)),
                      FMul(Score("consistency"), Frac(20, 100)),
                      FMul(Score("accuracy"), Frac(20, 100)),
                      FMul(Score("timeliness"), Frac(10, 100)),
                      FMul(Score("format_validity"), Frac(10, 100)),
                      FMul(Score("schema_compliance"), Frac(10, 100))>>))
        /\ FEq(FSum(<<Frac(30, 100), Frac(20, 100), Frac(20, 100), Frac(10, 100),
                      Frac(10, 100), Frac(10, 100)>>), Whole(1))


\* a report over the table of the outlier example: consistency 0.8 next to
\* other scores, and a defined overall_score
C12_Witness ==
    /\ Reported
    /\ ~last.report.overall_score.nan
    /\ FEq(Score("consistency"), Frac(8, 10))
    /\ FEq(Score("completeness"), Whole(1))
    /\ FEq(Score("timeliness"), Frac(1, 2))
    /\ FEq(last.report.overall_score, Frac(86, 100))

\* a float in the closed interval [0, 1]
InUnitInterval(x) == FLeq(Whole(0), x) /\ FLeq(x, Whole(1))

\* C13: for every table and every metadata (any last_updated, past or future,
\* any schema), each of the six scores of a report and its overall_score lie
\* in [0, 1].
C13_ScoresInUnitInterval ==
    Reported =>
        /\ \A i \in DOMAIN last.report.detailed_scores :
              InUnitInterval(last.report.detailed_scores[i][2])
        /\ InUnitInterval(last.report.overall_score)

\* the input of the call is valid: a file of a supported format that loads to
\* a table with at least one row and one column, and metadata whose
\* last_updated, if any, is an ISO-8601 timestamp and whose schema, if any,
\* maps names to type strings
ValidQualityInput ==
    /\ last.file.ext \in {".csv", ".json", ".parquet"}
    /\ last.file.readable
    /\ last.file.df.names # <<>>
    /\ FrameLen(last.file.df) >= 1
    /\ "last_updated" \in DOMAIN last.metadata =>
          /\ last.metadata["last_updated"].t = "str"
          /\ fromisoformat(last.metadata["last_updated"].s).exc = ""
    /\ "schema" \in DOMAIN last.metadata => last.metadata["schema"].t = "dict"

\* C14: for valid input evaluate_quality returns a report with overall_score,
\* the six detailed_scores and a recommendations list, and does not raise.
C14_ReportForValidInput ==
    (last.op = "evaluate_quality" /\ last.at = "returned" /\ ValidQualityInput)
    => /\ last.exc = ""
       /\ Len(last.report.detailed_scores) = 6

\* the call is one that must fail: the file does not load, the table has no
\* rows, or the metadata is malformed
MustFail ==
    \/ last.file.ext \notin {".csv", ".json", ".parquet"}
    \/ ~last.file.readable
    \/ FrameLen(last.file.df) = 0
    \/ /\ "last_updated" \in DOMAIN last.metadata
       /\ \/ last.metadata["last_updated"].t # "str"
          \/ fromisoformat(last.metadata["last_updated"].s).exc # ""
    \/ /\ "schema" \in DOMAIN last.metadata
       /\ last.metadata["schema"].t # "dict"

MetricOf(advisory) == CHOOSE i \in DOMAIN Metrics : Advisory(Metrics[i]) = advisory
InDeclarationOrder(recs) ==
    /\ \A i \in DOMAIN recs : \E j \in DOMAIN Metrics : Advisory(Metrics[j]) = recs[i]
    /\ \A i, j \in DOMAIN recs : i < j => MetricOf(recs[i]) < MetricOf(recs[j])

\* the report has the advisory of metric m exactly when its score is below t
AdvisedBelow(m, t) ==
    (\E i \in DOMAIN last.report.recommendations :
        last.report.recommendations[i] = Advisory(m))
    <=> FLess(Score(m), t)

\* C16 (as stated): the recommendations hold one fixed advisory for each
\* metric whose score is below its threshold and none for a metric at or
\* above it, the threshold being 0.9 for completeness, consistency and
\* accuracy; advisories are in metric declaration order, none twice.
C16_AdvisoryBelowPointNine ==
    Reported =>
        /\ InDeclarationOrder(last.report.recommendations)
        /\ AdvisedBelow("completeness", Frac(9, 10))
        /\ AdvisedBelow("consistency", Frac(9, 10))
        /\ AdvisedBelow("accuracy", Frac(9, 10))

\* C16 (amended): as stated, with the threshold 0.9 for completeness and 0.95
\* for consistency and accuracy.
C16_AdvisoryBelowOwnThreshold ==
    Reported =>
        /\ InDeclarationOrder(last.report.recommendations)
        /\ AdvisedBelow("completeness", Frac(9, 10))
        /\ AdvisedBelow("consistency", Frac(95, 100))
        /\ AdvisedBelow("accuracy", Frac(95, 100))

\* a report with consistency 0.9, which is advised, among other advisories
C16_Witness ==
    /\ Reported
    /\ FEq(Score("consistency"), Frac(9, 10))
    /\ \E i \in DOMAIN last.report.recommendations :
          last.report.recommendations[i] = Advisory("consistency")
    /\ Len(last.report.recommendations) >= 3
    /\ ~\E i \in DOMAIN last.report.recommendations :
          last.report.recommendations[i] = Advisory("completeness")

----------------------------------------------------------------------------
(* DatasetAnalytics: correlations *)

\* one entry of DataFrame.corr(): NaN, or the coefficient r given by its sign
\* and its square
CorrNaN == [nan |-> TRUE, sign |-> 0, sq |-> Whole(0)]
Corr(sign, sq) == [nan |-> FALSE, sign |-> sign, sq |-> sq]

Sign(x) == IF x > 0 THEN 1 ELSE IF x < 0 THEN -1 ELSE 0

\* the Pearson coefficient of two columns over the rows where both have a
\* value: cov / (std_a * std_b), NaN without such a row or when a column is
\* constant on them
Pearson(a, b) ==
    LET rows == SelectSeq([i \in DOMAIN a.cells |-> i],
                          LAMBDA i : ~a.cells[i].null /\ ~b.cells[i].null)
        n == Len(rows)
        xs == [k \in DOMAIN rows |-> a.cells[rows[k]].v]
        ys == [k \in DOMAIN rows |-> b.cells[rows[k]].v]
        Dot(u, v) == SumSeq([k \in DOMAIN rows |-> u[k] * v[k]])
        cov == n * Dot(xs, ys) - SumSeq(xs) * SumSeq(ys)
        var_a == n * Dot(xs, xs) - SumSeq(xs) * SumSeq(xs)
        var_b == n * Dot(ys, ys) - SumSeq(ys) * SumSeq(ys)
    IN  IF n = 0 \/ var_a * var_b = 0 THEN CorrNaN
        ELSE Corr(Sign(cov), Frac(cov * cov, var_a * var_b))

\* numeric_df.corr().to_dict(): column -> (column -> coefficient)
CorrMatrix(df, cols) ==
    [c \in {cols[i] : i \in DOMAIN cols} |->
        [r \in {cols[i] : i \in DOMAIN cols} |-> Pearson(df.cols[r], df.cols[c])]]

\* a variant that wants two numeric columns before it correlates
_get_correlations_FromTwoColumns(df) ==
    LET numeric == NumericNames(df)
    IN  IF Len(numeric) >= 2 /\ FrameLen(df) # 0 THEN CorrMatrix(df, numeric) ELSE EmptyDict

\* _get_correlations(df); numeric_df.empty holds without a numeric column and
\* without a row
_get_correlations(df) ==
    LET numeric == NumericNames(df)
    IN  IF ~(numeric = <<>> \/ FrameLen(df) = 0) THEN CorrMatrix(df, numeric) ELSE EmptyDict

\* the tables handed to the profiler: one or two columns, numbers or text, of
\* up to MaxLen + 1 rows
AnalyticsCells(n) == SeqsOfLen({Cell(1), Cell(2), Null}, n)
AnalyticsFrames ==
    UNION {{Frame(<<"x">>, [c \in {"x"} |-> Column(k, cells)]) :
               k \in {"num", "text"}, cells \in AnalyticsCells(n)}
           \cup {Frame(<<"x", "y">>,
                       [c \in {"x", "y"} |-> IF c = "x" THEN Column(kx, cx)
                                              ELSE Column(ky, cy)]) :
                    kx \in {"num", "text"}, ky \in {"num", "text"},
                    cx \in AnalyticsCells(n), cy \in AnalyticsCells(n)} :
           n \in 0..(MaxLen + 1)}

\* a DatasetAnalytics and the table it is about to profile
AnalyticsInit ==
    /\ salt \in Salts
    /\ files = [p \in UserPaths |-> PlainFile(<<>>)]
    /\ blobs = <<>>
    /\ jsons = <<>>
    /\ callerMeta = [m \in MetaIds |-> EmptyDict]
    /\ uploads = <<>>
    /\ encLog = <<>>
    /\ \E df \in AnalyticsFrames :
          last = [op |-> "_get_correlations", at |-> "called", df |-> df, ret |-> EmptyDict]
    /\ nops = 0
    /\ ledger = <<>>
    /\ pc = <<>>
    /\ tl = <<>>

\* analytics._get_correlations(df) runs to its end
GetCorrelations ==
    /\ last.op = "_get_correlations"
    /\ last.at = "called"
    /\ last' = [last EXCEPT !.at = "returned", !.ret = _get_correlations(last.df)]
    /\ nops' = nops + 1
    /\ UNCHANGED <<salt, files, blobs, jsons, callerMeta, uploads, encLog, ledger, pc, tl>>

AnalyticsNext == GetCorrelations

AnalyticsSpec == AnalyticsInit /\ [][AnalyticsNext]_vars

\* the result is a symmetric matrix over the numeric columns of the table
Correlated == last.op = "_get_correlations" /\ last.at = "returned"
NumericSet == {NumericNames(last.df)[i] : i \in DOMAIN NumericNames(last.df)}
SymmetricOverNumeric ==
    /\ DOMAIN last.ret = NumericSet
    /\ \A c \in NumericSet : DOMAIN last.ret[c] = NumericSet
    /\ \A c, r \in NumericSet : last.ret[c][r] = last.ret[r][c]

\* C19 (as stated): the correlations are a symmetric matrix over all numeric
\* columns, and the empty matrix whenever the table has fewer than two
\* numeric columns.
C19_EmptyBelowTwoNumericColumns ==
    Correlated =>
        IF Cardinality(NumericSet) < 2 THEN last.ret = EmptyDict ELSE SymmetricOverNumeric

\* C19 (amended): the correlations are a symmetric matrix over all numeric
\* columns, one by one for a single numeric column, and the empty matrix
\* whenever the table has no numeric column or no row.
C19_EmptyWithoutNumericData ==
    Correlated =>
        IF NumericSet = {} \/ FrameLen(last.df) = 0
        THEN last.ret = EmptyDict
        ELSE SymmetricOverNumeric

\* two numeric columns were correlated, with a negative coefficient off the
\* diagonal
C19_Witness ==
    /\ Correlated
    /\ NumericSet = {"x", "y"}
    /\ DOMAIN last.ret = {"x", "y"}
    /\ ~last.ret["x"]["y"].nan
    /\ last.ret["x"]["y"].sign = -1
    /\ last.ret["x"]["x"] = Corr(1, Whole(1))

----------------------------------------------------------------------------
(* Hashing files that take more than one read *)

\* n bytes
Fill(n) == [i \in 1..n |-> i % 256]

\* the files to hash: short ones, and ones around one and two read blocks
HashContents ==
    {PlainFile(d) : d \in ByteSeqs}
    \cup {PlainFile(Fill(n)) : n \in {ChunkSize - 1, ChunkSize, ChunkSize + 1, 2 * ChunkSize + 1}}

\* a DataManager over files of these sizes
HashInit ==
    /\ salt \in Salts
    /\ files \in [UserPaths -> HashContents]
    /\ blobs = <<>>
    /\ jsons = <<>>
    /\ callerMeta = [m \in MetaIds |-> EmptyDict]
    /\ uploads = <<>>
    /\ encLog = <<>>
    /\ last = [op |-> "_calculate_file_hash", calls |-> <<>>]
    /\ nops = 0
    /\ ledger = <<>>
    /\ pc = <<>>
    /\ tl = <<>>

\* data_manager._calculate_file_hash(file_path); calls keeps what each call
\* was given and what it returned
CalculateFileHash(file_path) ==
    /\ nops < MaxOps
    /\ LET r == _calculate_file_hash(files, file_path)
       IN  last' = [last EXCEPT !.calls = Append(@, [file_path |-> file_path,
                                                     content |-> files[file_path],
                                                     exc |-> r.exc,
                                                     hash |-> r.hash])]
    /\ nops' = nops + 1
    /\ UNCHANGED <<salt, files, blobs, jsons, callerMeta, uploads, encLog, ledger, pc, tl>>

HashNext == \E f \in UserPaths : CalculateFileHash(f)

HashSpec == HashInit /\ [][HashNext]_vars

\* C20: the hash of a file is a function of its bytes only: every call of
\* _calculate_file_hash on the same bytes returns the same digest, and the
\* digest of the bytes read in blocks of 4096 is the digest of the whole
\* byte sequence.
C20_HashOfBytesOnly ==
    \A i \in DOMAIN last.calls :
        /\ last.calls[i].exc = ""
        /\ last.calls[i].hash = Sha256(last.calls[i].content)
        /\ \A j \in DOMAIN last.calls :
              last.calls[j].content.data = last.calls[i].content.data
              => last.calls[j].hash = last.calls[i].hash

\* two files with the same bytes, more than two read blocks long, were hashed
C20_Witness ==
    \E i, j \in DOMAIN last.calls :
        /\ last.calls[i].file_path # last.calls[j].file_path
        /\ last.calls[i].content = last.calls[j].content
        /\ Len(last.calls[i].content.data) > 2 * ChunkSize
        /\ last.calls[i].hash = last.calls[j].hash

----------------------------------------------------------------------------
(* The consistency metric, as the documentation defines it *)

\* the quantile q of the values of a column, by linear interpolation between
\* the two values next to position (n - 1) * q of the sorted values
QuantileOf(vs, q) ==
    LET s == Sorted(vs)
        pos == FMul(Whole(Len(s) - 1), q)
        k == pos.n \div pos.d
        frac == FSub(pos, Whole(k))
    IN  IF k + 2 > Len(s) THEN Whole(s[k + 1])
        ELSE FAdd(Whole(s[k + 1]), FMul(frac, Whole(s[k + 2] - s[k + 1])))

\* the rows of a column outside [Q1 - 1.5 IQR, Q3 + 1.5 IQR]
RowsOutside(col) ==
    LET vs == NonNull(col.cells)
        Q1 == QuantileOf(vs, Frac(1, 4))
        Q3 == QuantileOf(vs, Frac(3, 4))
        IQR == FSub(Q3, Q1)
        lower == FSub(Q1, FMul(Frac(3, 2), IQR))
        upper == FAdd(Q3, FMul(Frac(3, 2), IQR))
    IN  IF vs = <<>> THEN {}
        ELSE {i \in DOMAIN col.cells :
                 /\ ~col.cells[i].null
                 /\ \/ FLess(Whole(col.cells[i].v), lower)
                    \/ FLess(upper, Whole(col.cells[i].v))}

\* the unweighted mean over the numeric columns of 1 - outliers / rowcount,
\* 1.0 without numeric column
DocumentedConsistency(df) ==
    LET cols == NumericNames(df)
        rowcount == FrameLen(df)
    IN  IF cols = <<>> THEN Whole(1)
        ELSE FMul(FSum([i \in DOMAIN cols |->
                           FSub(Whole(1),
                                Frac(Cardinality(RowsOutside(df.cols[cols[i]])), rowcount))]),
                  Frac(1, Len(cols)))

\* the single-column table of the documentation's example
OutlierExample == Frame(<<"x">>, [c \in {"x"} |-> Column("num", Ints(<<1, 2, 3, 4, 100>>))])

\* C21: the consistency score of a report is the unweighted mean, over the
\* numeric columns, of 1 - (rows outside [Q1 - 1.5 IQR, Q3 + 1.5 IQR]) /
\* rowcount, and 1.0 without numeric column; for the single column
\* [1, 2, 3, 4, 100] the row 100 is the only outlier and the score is 0.8.
C21_ConsistencyIsOutlierFreeFraction ==
    Reported =>
        /\ FEq(Score("consistency"), DocumentedConsistency(last.file.df))
        /\ NumericNames(last.file.df) = <<>> => FEq(Score("consistency"), Whole(1))
        /\ last.file.df = OutlierExample =>
              /\ IqrOutliers(last.file.df.cols["x"]) = 1
              /\ RowsOutside(last.file.df.cols["x"]) = {5}
              /\ FEq(Score("consistency"), Frac(8, 10))

\* the example table was scored
C21_Witness ==
    /\ Reported
    /\ last.file.df = OutlierExample
    /\ FEq(Score("consistency"), Frac(8, 10))

----------------------------------------------------------------------------
(* The schema metric, as the documentation defines it *)

\* the type string pandas reports for a column of the table of the call
ActualType(c) ==
    LET col == last.file.df.cols[c]
    IN  IF col.kind = "text" THEN "object"
        ELSE IF \A i \in DOMAIN col.cells : ~col.cells[i].null THEN "int64"
        ELSE "float64"

\* the expected columns that are in the table with the declared type string
ExactMatches ==
    {c \in DOMAIN last.metadata["schema"].d :
        /\ \E i \in DOMAIN last.file.df.names : last.file.df.names[i] = c
        /\ ActualType(c) = last.metadata["schema"].d[c]}

\* C22: for metadata with a schema mapping, schema_compliance is the number of
\* expected columns the table has with exactly the declared type string over
\* the number of expected columns, without partial credit (a declared int on
\* a float column counts 0); without schema the score is 0.5.
C22_SchemaComplianceIsExactFraction ==
    Reported =>
        /\ "schema" \notin DOMAIN last.metadata => FEq(Score("schema_compliance"), Frac(1, 2))
        /\ ("schema" \in DOMAIN last.metadata /\ last.metadata["schema"].t = "dict") =>
              FEq(Score("schema_compliance"),
                  Frac(Cardinality(ExactMatches), Cardinality(DOMAIN last.metadata["schema"].d)))
        /\ (/\ "schema" \in DOMAIN last.metadata
            /\ last.metadata["schema"] = PyDict([c \in {"age"} |-> "int"])
            /\ last.file.df.names = <<"age">>
            /\ ActualType("age") = "float64") =>
              FEq(Score("schema_compliance"), Whole(0))

\* a float column age was scored against the declared type int, and scored 0
C22_Witness ==
    /\ Reported
    /\ "schema" \in DOMAIN last.metadata
    /\ last.metadata["schema"] = PyDict([c \in {"age"} |-> "int"])
    /\ last.file.df.names = <<"age">>
    /\ FEq(Score("schema_compliance"), Whole(0))

----------------------------------------------------------------------------
(* The handlers that write to the ledger *)

\* _calculate_file_hash(file.file): open() takes a path or a descriptor, and
\* UploadFile.file is a SpooledTemporaryFile
HashOfFileObject == [exc |-> "TypeError", hash |-> NoHash]

\* POST /datasets: upload_dataset(file.file, listing.metadata), then
\* list_dataset(metadata_hash, ...), where metadata_hash is all that
\* upload_dataset returned.  The handler takes no token and calls no
\* verify_token.
CreateDataset(m, ipfs_fail, list_fail) ==
    /\ nops < MaxOps
    /\ LET r == upload_steps(HashOfFileObject, salt, files, blobs, jsons, NoPath,
                             callerMeta[m], None, 1, ipfs_fail)
           listed == r.exc = "" /\ ~list_fail
       IN  /\ files' = r.fs
           /\ blobs' = r.blobs
           /\ jsons' = r.jsons
           /\ callerMeta' = [callerMeta EXCEPT ![m] = r.metadata]
           /\ uploads' = IF r.exc = ""
                         THEN Append(uploads, [content |-> PlainFile(<<>>),
                                               password |-> None,
                                               ret |-> r.ret])
                         ELSE uploads
           /\ ledger' = IF listed
                        THEN Append(ledger, [op |-> "list_dataset", metadata_hash |-> r.ret])
                        ELSE ledger
           /\ last' = [op |-> "create_dataset",
                       exc |-> IF r.exc # "" THEN r.exc
                               ELSE IF list_fail THEN "ContractError" ELSE "",
                       upload_exc |-> r.exc,
                       verified |-> FALSE,
                       status |-> IF listed THEN 200 ELSE 500,
                       ret |-> r.ret]
    /\ nops' = nops + 1
    /\ UNCHANGED <<salt, encLog, pc, tl>>

\* the bearer tokens a request may carry: one that create_access_token
\* signed and that has not expired, an expired one, one signed with another
\* key, and none at all
Tokens == {"signed", "expired", "forged", None}

\* oauth2_scheme, then Auth.verify_token(token): jwt.decode checks signature
\* and expiry, JWTError becomes HTTPException(401); a request without
\* Authorization header is answered 401 by oauth2_scheme
verify_token(token) ==
    IF token = "signed" THEN [exc |-> "", status |-> 200]
    ELSE [exc |-> "HTTPException", status |-> 401]

\* the handlers that take a token, and the BlockchainManager call of each
TokenHandlers ==
    [batch_create_datasets       |-> "batch_list_datasets",
     add_dataset_version         |-> "add_dataset_version",
     update_dataset_category     |-> "update_dataset_category",
     update_dataset_tags         |-> "update_dataset_tags",
     update_dataset_access       |-> "set_dataset_access",
     grant_dataset_access        |-> "grant_access",
     set_subscription_price      |-> "set_subscription_price",
     subscribe_to_dataset        |-> "subscribe_to_dataset",
     cancel_dataset_subscription |-> "cancel_subscription"]

\* the number of listings a batch request may carry
BatchSizes == {0, 1}

\* a handler with token: str = Depends(oauth2_scheme).  verify_token is
\* called before the try block, the transaction inside it.  The loop of
\* batch_create_datasets reads listing.metadata_hash, which DatasetListing
\* does not have; tx_fail tells whether the contract call raises.
AuthenticatedHandler(handler, token, n_listings, tx_fail) ==
    /\ nops < MaxOps
    /\ LET v == verify_token(token)
           exc == IF v.exc # "" THEN v.exc
                  ELSE IF handler = "batch_create_datasets" /\ n_listings > 0
                  THEN "AttributeError"
                  ELSE IF tx_fail THEN "ContractError"
                  ELSE ""
       IN  /\ ledger' = IF exc = ""
                        THEN Append(ledger, [op |-> TokenHandlers[handler], metadata_hash |-> 0])
                        ELSE ledger
           /\ last' = [op |-> handler,
                       exc |-> exc,
                       verified |-> v.exc = "",
                       status |-> IF v.exc # "" THEN v.status
                                  ELSE IF exc # "" THEN 500 ELSE 200]
    /\ nops' = nops + 1
    /\ UNCHANGED <<salt, files, blobs, jsons, callerMeta, uploads, encLog, pc, tl>>

\* the server starts with an encryptor, no file of its own and nothing sent
\* to the store or to the ledger
LedgerInit ==
    /\ salt \in Salts
    /\ files = EmptyDict
    /\ blobs = <<>>
    /\ jsons = <<>>
    /\ callerMeta = [m \in MetaIds |-> EmptyDict]
    /\ uploads = <<>>
    /\ encLog = <<>>
    /\ last = [op |-> "init", exc |-> ""]
    /\ nops = 0
    /\ ledger = <<>>
    /\ pc = <<>>
    /\ tl = <<>>

\* the files the clients send: an empty one and one of a single byte
RequestBodies == {<<>>, <<CHOOSE b \in Bytes : TRUE>>}

LedgerNext ==
    \/ \E m \in MetaIds, x \in UploadFailures, lf \in BOOLEAN : CreateDataset(m, x, lf)
    \/ \E name \in UploadNames, data \in RequestBodies, p \in {"secret", ""}, iv \in IVs,
          x \in UploadFailures, lf \in BOOLEAN :
          CreateEncryptedDataset(name, data, p, iv, x, lf)
    \/ \E handler \in DOMAIN TokenHandlers, token \in Tokens, n \in BatchSizes,
          tx_fail \in BOOLEAN :
          AuthenticatedHandler(handler, token, n, tx_fail)

LedgerSpec == LedgerInit /\ [][LedgerNext]_vars

\* the request that has just been served listed a dataset
Listed == Len(ledger') = Len(ledger) + 1 /\ ledger'[Len(ledger')].op = "list_dataset"

\* C23: when create_dataset or create_encrypted_dataset submits a listing, the
\* upload of the same request has returned, the first argument of
\* list_dataset is the metadata pointer that upload returned, and get_json
\* resolves it to the record the upload stored; a request whose upload failed
\* lists nothing.
C23_ListingFollowsUpload ==
    [][/\ Listed =>
             /\ last'.op \in {"create_dataset", "create_encrypted_dataset"}
             /\ last'.upload_exc = ""
             /\ Len(uploads') = Len(uploads) + 1
             /\ LET u == uploads'[Len(uploads')]
                    l == ledger'[Len(ledger')]
                IN  /\ l.metadata_hash = u.ret.metadata_hash
                    /\ l.metadata_hash \in Ptrs(jsons')
                    /\ jsons'[l.metadata_hash].file_hash = u.ret.file_hash
                    /\ jsons'[l.metadata_hash].ipfs_hash = u.ret.ipfs_hash
       /\ (/\ last'.op \in {"create_dataset", "create_encrypted_dataset"}
           /\ nops' = nops + 1
           /\ last'.upload_exc # "") => ledger' = ledger]_vars

\* a listing is on the ledger whose pointer get_json resolves, next to a
\* stored blob whose pointer differs from it
C23_Witness ==
    /\ last.op = "create_encrypted_dataset"
    /\ last.status = 200
    /\ ledger # <<>>
    /\ ledger[Len(ledger)].op = "list_dataset"
    /\ ledger[Len(ledger)].metadata_hash = last.ret.metadata_hash
    /\ last.ret.metadata_hash # last.ret.ipfs_hash


\* C25: no handler submits a state-changing ledger transaction unless
\* verify_token succeeded earlier in the same request; a request whose token
\* is missing or invalid ends with an error and without ledger call.
C25_LedgerOnlyAfterVerifiedToken ==
    [][/\ ledger' # ledger => last'.verified
       /\ (nops' = nops + 1 /\ ~last'.verified /\ last'.op \in DOMAIN TokenHandlers) =>
             (ledger' = ledger /\ last'.status = 401)]_vars

----------------------------------------------------------------------------
(* The salt of a metadata record *)

\* the caller's mapping as record i of the store holds it
RecordMetadata(i) == jsons[i]["metadata"]

\* C24: in every metadata record that upload_dataset calls have written, also
\* when the caller hands the same mapping to several uploads, a salt is
\* present exactly if encrypted is true, and the salt that is present is the
\* one under which the blob of the record was encrypted.
C24_SaltIffEncrypted ==
    \A i \in Ptrs(jsons) :
        /\ ("salt" \in DOMAIN RecordMetadata(i)) <=> (RecordMetadata(i)["encrypted"] = TRUE)
        /\ "salt" \in DOMAIN RecordMetadata(i) =>
              /\ blobs[jsons[i]["ipfs_hash"]].kind # "plain"
              /\ Hex(blobs[jsons[i]["ipfs_hash"]].key.salt) = RecordMetadata(i)["salt"]

====
